---- MODULE Spec2Model ----
(***************************************************************************)
(* Connection / provisioning orchestrator of esp32_wifi_manager.           *)
(*                                                                         *)
(* Execution contexts:                                                     *)
(*   - the application task, which calls the public API                    *)
(*     (wifi_manager_auto_connect, wifi_manager_start_config_portal,       *)
(*     wifi_manager_destroy, the setters) and runs the portal wait loop;   *)
(*   - the event task, which runs wifi_event_handler once per driver event;*)
(*   - the FreeRTOS timer task, which runs timeout_timer_callback;         *)
(*   - the HTTP server task, which runs connect_handler,                   *)
(*     setup_page_handler and wifi_list_handler;                           *)
(*   - the scan task, which runs wifi_scan_task.                           *)
(* The driver is modelled by the station state `sta`, the radio mode and   *)
(* the started flag; it raises an event only when the station state allows *)
(* it.                                                                     *)
(*                                                                         *)
(* Specifications:                                                         *)
(*   Spec / FairSpec  the application task, the event task and the timer   *)
(*                    task; scan requests are sent, the scan task itself   *)
(*                    (whose writes reach no variable read here) is in     *)
(*                    SpecScan;                                            *)
(*   SpecScan / FairScan  the scan task, the event task and the HTTP       *)
(*                    handlers under a running portal;                     *)
(*   SpecList         wifi_list_handler on one stored batch;               *)
(*   SpecStart        the network selection of wifi_manager_start on a     *)
(*                    stored batch and a saved SSID;                       *)
(*   SpecConfig       the configuration-parameter operations and POST      *)
(*                    /reset;                                              *)
(*   SpecPortal       the start of the portal with an observer registered  *)
(*                    and an AP password passed;                           *)
(*   SpecRestart      the scan coordinator across successive portal and    *)
(*                    auto-connect calls, without station events;          *)
(*   SpecLink         the station link with the loss of the address.       *)
(***************************************************************************)
EXTENDS Integers, Sequences, FiniteSets, TLC

\* wifi_manager_private.h
WIFI_MANAGER_MAX_RETRY == 3
WIFI_MANAGER_DEFAULT_TIMEOUT == 180
SCAN_NOTIFICATION_START == 1
SCAN_NOTIFICATION_COMPLETE == 2
MAX_SCANNED_NETWORKS == 20

\* Number of 500 ms polls wifi_manager_auto_connect makes before its wait
\* expires (20000 / 500 in the source, scaled down).
MaxWaitPolls == 2

\* Addresses the DHCP client can report; NoAddr is the zeroed buffer.
NoAddr == "0.0.0.0"
Addrs == {"10.0.0.1", "10.0.0.2"}

\* Values wifi_manager_set_config_portal_timeout is called with (0 = none).
TimeoutChoices == {0, WIFI_MANAGER_DEFAULT_TIMEOUT}

Status == {"DISCONNECTED", "CONNECTING", "CONNECTED", "AP_MODE",
           "CONFIG_PORTAL", "FAILED"}

VARIABLES
    \* --- process-wide globals (wifi_manager_core.c) ---
    current_status,        \* wifi_status_t current_status
    ip_address,            \* char ip_address[16]
    retry_count,           \* int retry_count (legacy, used when g_wm == NULL)
    g_wm,                  \* TRUE while g_wm points to the instance
    \* --- struct wifi_manager_t ---
    wm_status,             \* wm->current_status
    wm_ip_address,         \* wm->ip_address
    wm_retry_count,        \* wm->retry_count
    config_portal_timeout, \* wm->config_portal_timeout
    save_callback,         \* wm->save_callback != NULL
    timeout_timer,         \* wm->timeout_timer != NULL
    portal_aborted,        \* wm->portal_aborted
    config_saved,          \* wm->config_saved
    server,                \* wm->server != NULL (httpd running)
    \* --- collaborators ---
    timer_state,           \* FreeRTOS timer object: none / active / expired / deleted
    timer_deletes,         \* xTimerDelete calls made on the current timer object
    wifi_mode,             \* esp_wifi_set_mode: null / sta / ap / apsta
    wifi_started,          \* esp_wifi_start / esp_wifi_stop
    sta,                   \* station: idle / trying / assoc / up
    nvs_creds,             \* a non-empty ssid is stored in namespace wifi_config
    \* --- control ---
    app_pc,                \* position of the application task
    ac_active,             \* a wifi_manager_auto_connect frame is on the stack
    elapsed,               \* polls made by the auto_connect wait loop
    ev_pc,                 \* position of the event task inside wifi_event_handler
    ev_addr,               \* address carried by the IP event being handled
    \* --- observation (history) ---
    ev_pre,                \* retry counter found by the IP event being handled
    disc_run,              \* per consecutive disconnect event since the counter was 0:
                           \*   did the handler reissue esp_wifi_connect
    portal_ret,            \* result of the last wifi_manager_start_config_portal
    ac_ret,                \* result of the last wifi_manager_auto_connect
    ac_portal,             \* the current auto_connect call started the portal
    ac_seen,               \* status read by auto_connect's check after its wait
    ac_gotip,              \* an address was acquired during the current auto_connect
    poll_seen,             \* status read by the last poll of the portal wait loop
    sess_connected,        \* status became Connected while the wait loop ran
                           \*   and has been Connected since
    sess_expired,          \* the timeout timer expired in this session
    submitted,             \* credentials were posted since the session started
    save_calls,            \* save_callback invocations of the current portal call
    \* --- scan coordinator (wifi_manager_scan.c) ---
    notify,                \* notification value pending for the scan task (0 = none)
    scan_pc,               \* position of the scan task inside wifi_scan_task
    scan_active,           \* the driver has a scan in flight
    scan_completed,        \* wm->scan_completed
    scanned_count,         \* wm->scanned_count
    scanned_networks,      \* wm->scanned_networks[0 .. ] as far as ever written
    ap_records,            \* the scan task's local ap_records[0 .. ap_num - 1]
    minimum_signal_quality,\* wm->minimum_signal_quality
    \* --- HTTP transport ---
    listed,                \* networks array of the last /wifi response
    served,                \* a /wifi response has been sent
    page_requests,         \* GET / requests served so far
    \* --- observation (history) ---
    start_taken,           \* the scan task took a start request and has not
                           \*   set the completion flag since
    \* --- observer callback (wifi_manager_core.c) ---
    user_callback,         \* user_callback != NULL
    cb_run,                \* invocations of user_callback made by the latest
                           \*   update_status call, in order
    \* --- soft AP ---
    ap_password_arg,       \* ap_password the application passes to the portal
    ap_authmode,           \* authmode of the AP configuration handed to the driver
    \* --- saved credentials, wifi_manager_start ---
    saved_ssid,            \* the name load_wifi_credentials returns
    strongest_index,       \* strongest_index of the last wifi_manager_start (0-based)
    \* --- configuration parameters (wifi_manager_config.c) ---
    config_params,         \* wm->config_params[0 .. config_param_count - 1]
    nvs_config,            \* blob "config_json" of namespace app_config (<<>> = absent)
    cfg_err,               \* esp_err_t returned by the last parameter operation
    cfg_ops,               \* parameter operations made so far
    \* --- observation (history) ---
    stale_abort            \* the session being set up found portal_aborted set on
                           \*   entry (until its wait loop first tests the flag)

globalVars == <<current_status, ip_address, retry_count, g_wm>>
wmVars     == <<wm_status, wm_ip_address, wm_retry_count, config_portal_timeout,
                save_callback, timeout_timer, portal_aborted, config_saved, server>>
envVars    == <<timer_state, timer_deletes, wifi_mode, wifi_started, sta, nvs_creds>>
ctlVars    == <<app_pc, ac_active, elapsed, ev_pc, ev_addr>>
obsVars    == <<ev_pre, disc_run, portal_ret, ac_ret, ac_portal, ac_seen, ac_gotip,
                poll_seen, sess_connected, sess_expired, submitted, save_calls>>
vars == <<globalVars, wmVars, envVars, ctlVars, obsVars>>
scanVars   == <<notify, scan_pc, scan_active, scan_completed, scanned_count,
                scanned_networks, ap_records>>
webVars    == <<minimum_signal_quality, listed, served, page_requests, start_taken>>
cbVars     == <<user_callback, cb_run>>
apVars     == <<ap_password_arg, ap_authmode>>
selVars    == <<saved_ssid, strongest_index>>
cfgVars    == <<config_params, nvs_config, cfg_err, cfg_ops>>
extVars    == <<cbVars, apVars, selVars, cfgVars, stale_abort>>
allVars    == <<vars, scanVars, webVars, extVars>>

\* Positions of the application task inside wifi_manager_start_config_portal.
PortalPcs == {"p_ap", "p_web", "p_scan", "p_timer", "p_test", "p_poll_timer",
              "p_poll_status", "p_cleanup", "p_result"}
\* ... inside its wait loop.
LoopPcs == {"p_test", "p_poll_timer", "p_poll_status"}

\* The retry counter the event handler works on.
RetryCounter == IF g_wm THEN wm_retry_count ELSE retry_count

-----------------------------------------------------------------------------
(* Data of the configuration parameters and of the soft AP.  A C string is *)
(* the sequence of its characters; a char pointer is NULL or points to a    *)
(* string.                                                                  *)

\* wifi_manager_private.h
MAX_CONFIG_PARAMS == 16
MAX_CONFIG_STRING_LEN == 128

NullPtr == [set |-> FALSE, str |-> <<>>]
Ptr(s) == [set |-> TRUE, str |-> s]

\* add_config_parameter: the length limit it stores for each type.
MaxLengthOf(type) ==
    IF type = "STRING" THEN MAX_CONFIG_STRING_LEN - 1
    ELSE IF type = "INT" THEN 10
    ELSE IF type = "BOOL" THEN 5
    ELSE 15

\* strncpy(dst, src, sizeof(dst) - 1) into a buffer of MAX_CONFIG_STRING_LEN.
Stored(s) ==
    IF Len(s) > MAX_CONFIG_STRING_LEN - 1
    THEN SubSeq(s, 1, MAX_CONFIG_STRING_LEN - 1) ELSE s

\* add_config_parameter: the entry written into the next free slot.
NewParam(key, type, default_value, required) ==
    [key |-> key, type |-> type, value |-> Stored(default_value),
     default_value |-> Stored(default_value), required |-> required,
     max_length |-> MaxLengthOf(type)]

\* init_default_config_parameters: the eight entries it registers, in order.
DefaultParams ==
    << NewParam("mqtt_broker", "STRING", 
          <<"b", "r", "o", "k", "e", "r", ".", "m", "q", "t", "t", ".", "c", "o", "o", "l">>, TRUE),
       NewParam("mqtt_port", "INT", <<"1", "8", "8", "3">>, TRUE),
       NewParam("mqtt_username", "STRING", <<>>, FALSE),
       NewParam("mqtt_password", "STRING", <<>>, FALSE),
       NewParam("mqtt_topic", "STRING", 
          <<"e", "s", "p", "3", "2", "/", "d", "e", "v", "i", "c", "e">>, TRUE),
       NewParam("device_name", "STRING", 
          <<"E", "S", "P", "3", "2", "-", "C", "Y", "D">>, TRUE),
       NewParam("update_interval", "INT", <<"3", "0">>, TRUE),
       NewParam("enable_debug", "BOOL", <<"f", "a", "l", "s", "e">>, FALSE) >>

-----------------------------------------------------------------------------

\* wifi_manager_create has returned: the connection side.
ConnCreated ==
    /\ current_status = "DISCONNECTED"
    /\ ip_address = NoAddr
    /\ retry_count = 0
    /\ g_wm = TRUE
    /\ wm_status = "DISCONNECTED"
    /\ wm_ip_address = NoAddr
    /\ wm_retry_count = 0
    /\ config_portal_timeout = WIFI_MANAGER_DEFAULT_TIMEOUT
    /\ save_callback = FALSE
    /\ timeout_timer = FALSE
    /\ portal_aborted = FALSE
    /\ config_saved = FALSE
    /\ server = FALSE
    /\ timer_state = "none"
    /\ timer_deletes = 0
    /\ wifi_mode = "null"
    /\ wifi_started = FALSE
    /\ sta = "idle"
    /\ nvs_creds \in BOOLEAN
    /\ app_pc = "idle"
    /\ ac_active = FALSE
    /\ elapsed = 0
    /\ ev_pc = "idle"
    /\ ev_addr = NoAddr
    /\ ev_pre = 0
    /\ disc_run = <<>>
    /\ portal_ret = "none"
    /\ ac_ret = "none"
    /\ ac_portal = FALSE
    /\ ac_seen = "none"
    /\ ac_gotip = FALSE
    /\ poll_seen = "none"
    /\ sess_connected = FALSE
    /\ sess_expired = FALSE
    /\ submitted = FALSE
    /\ save_calls = 0

\* ... the scan coordinator and the HTTP transport.
ScanCreated ==
    /\ notify = 0
    /\ scan_pc = "wait"
    /\ scan_active = FALSE
    /\ scan_completed = FALSE
    /\ scanned_count = 0
    /\ scanned_networks = <<>>
    /\ ap_records = <<>>
    /\ minimum_signal_quality = 8
    /\ listed = <<>>
    /\ served = FALSE
    /\ page_requests = 0
    /\ start_taken = FALSE

\* ... no observer registered (wifi_manager_init was not called).
NoObserver ==
    /\ user_callback = FALSE
    /\ cb_run = <<>>

\* ... the name stored with the credentials; no connection was started yet.
NoSelection ==
    /\ saved_ssid = "HomeNet"
    /\ strongest_index = -1

\* ... the default parameters, nothing stored under app_config.
ParamsCreated ==
    /\ config_params = DefaultParams
    /\ nvs_config = <<>>
    /\ cfg_err = "ESP_OK"
    /\ cfg_ops = 0

\* wifi_manager_create has returned; the application will pass no AP password.
Init ==
    /\ ConnCreated
    /\ ScanCreated
    /\ NoObserver
    /\ ap_password_arg = NullPtr
    /\ ap_authmode = "none"
    /\ NoSelection
    /\ ParamsCreated
    /\ stale_abort = FALSE

-----------------------------------------------------------------------------
(* wifi_manager_core.c                                                     *)

\* What user_callback is called with: the status, and ip_address (the global
\* buffer) when the status is Connected, NULL otherwise.  `seen` is the global
\* status the callback finds when it runs.
CallbackArgs(status, seen) ==
    [status |-> status,
     ip_null |-> (status # "CONNECTED"),
     ip |-> IF status = "CONNECTED" THEN ip_address ELSE NoAddr,
     seen |-> seen]

\* Variant: the address is passed whatever the status.
update_status_AlwaysAddress(status) ==
    /\ current_status' = status
    /\ wm_status' = IF g_wm THEN status ELSE wm_status
    /\ cb_run' = IF user_callback
                 THEN <<[CallbackArgs(status, status) EXCEPT
                            !.ip_null = FALSE, !.ip = ip_address]>>
                 ELSE <<>>

\* update_status: both copies of the status are written when g_wm is set, then
\* the observer, if one is registered, is called once.
update_status(status) ==
    /\ current_status' = status
    /\ wm_status' = IF g_wm THEN status ELSE wm_status
    /\ cb_run' = IF user_callback THEN <<CallbackArgs(status, status)>> ELSE <<>>

\* esp_wifi_connect succeeds on a started radio whose mode includes STA.
CanConnect == wifi_started /\ wifi_mode \in {"sta", "apsta"}

\* timeout_timer_callback, run by the timer task when the one-shot timer expires.
TimerExpire ==
    /\ timer_state = "active"
    /\ timer_state' = "expired"
    /\ portal_aborted' = TRUE
    /\ sess_expired' = TRUE
    /\ UNCHANGED <<globalVars, wm_status, wm_ip_address, wm_retry_count,
                   config_portal_timeout, save_callback, timeout_timer, config_saved,
                   server, timer_deletes, wifi_mode, wifi_started, sta, nvs_creds,
                   ctlVars, ev_pre, disc_run, portal_ret, ac_ret, ac_portal, ac_seen,
                   ac_gotip, poll_seen, sess_connected, submitted, save_calls>>
    /\ UNCHANGED <<scanVars, webVars, extVars>>

\* WIFI_EVENT_STA_CONNECTED.
StaConnected ==
    /\ ev_pc = "idle"
    /\ sta = "trying"
    /\ sta' = "assoc"
    /\ update_status("CONNECTING")
    /\ sess_connected' = FALSE
    /\ UNCHANGED <<ip_address, retry_count, g_wm, wm_ip_address, wm_retry_count,
                   config_portal_timeout, save_callback, timeout_timer, portal_aborted,
                   config_saved, server, timer_state, timer_deletes, wifi_mode,
                   wifi_started, nvs_creds, ctlVars, ev_pre, disc_run, portal_ret,
                   ac_ret, ac_portal, ac_seen, ac_gotip, poll_seen, sess_expired,
                   submitted, save_calls>>
    /\ UNCHANGED <<scanVars, webVars, user_callback, apVars, selVars, cfgVars, stale_abort>>

\* Variant: the comparison admits the maximum itself (<= for <).
DisconnectOutcome_OffByOne(c) ==
    LET n == c + 1 IN
    IF n <= WIFI_MANAGER_MAX_RETRY
    THEN [retry |-> TRUE,  status |-> "CONNECTING",   count |-> n]
    ELSE [retry |-> FALSE, status |-> "DISCONNECTED", count |-> 0]

\* Variant: connect is reissued on the giving-up branch as well.
DisconnectOutcome_RetryAtMax(c) ==
    LET n == c + 1 IN
    IF n < WIFI_MANAGER_MAX_RETRY
    THEN [retry |-> TRUE, status |-> "CONNECTING",   count |-> n]
    ELSE [retry |-> TRUE, status |-> "DISCONNECTED", count |-> 0]

\* The outcome of the WIFI_EVENT_STA_DISCONNECTED branch for counter value c:
\* the incremented counter, whether connect is reissued, the status applied
\* and the counter left behind.
DisconnectOutcome(c) ==
    LET n == c + 1 IN
    IF n < WIFI_MANAGER_MAX_RETRY
    THEN [retry |-> TRUE,  status |-> "CONNECTING",   count |-> n]
    ELSE [retry |-> FALSE, status |-> "DISCONNECTED", count |-> 0]

\* WIFI_EVENT_STA_DISCONNECTED: the connection or the attempt has ended.
StaDisconnected ==
    /\ ev_pc = "idle"
    /\ sta \in {"trying", "assoc", "up"}
    /\ LET o == DisconnectOutcome(RetryCounter) IN
        /\ IF g_wm
           THEN wm_retry_count' = o.count /\ UNCHANGED retry_count
           ELSE retry_count' = o.count /\ UNCHANGED wm_retry_count
        /\ sta' = IF o.retry /\ CanConnect THEN "trying" ELSE "idle"
        /\ update_status(o.status)
        /\ disc_run' = IF RetryCounter = 0 THEN <<o.retry>>
                       ELSE Append(disc_run, o.retry)
    /\ sess_connected' = FALSE
    /\ UNCHANGED <<ip_address, g_wm, wm_ip_address, config_portal_timeout,
                   save_callback, timeout_timer, portal_aborted, config_saved, server,
                   timer_state, timer_deletes, wifi_mode, wifi_started, nvs_creds,
                   ctlVars, ev_pre, portal_ret, ac_ret, ac_portal, ac_seen, ac_gotip,
                   poll_seen, sess_expired, submitted, save_calls>>
    /\ UNCHANGED <<scanVars, webVars, user_callback, apVars, selVars, cfgVars, stale_abort>>

\* Variant: the address is recorded but the retry counter is left alone.
GotIpRecord_NoReset ==
    /\ ev_pc = "idle"
    /\ sta \in {"assoc", "up"}
    /\ \E a \in Addrs :
        /\ ip_address' = a
        /\ ev_addr' = a
        /\ wm_ip_address' = IF g_wm THEN a ELSE wm_ip_address
    /\ UNCHANGED <<retry_count, wm_retry_count>>
    /\ sta' = "up"
    /\ ev_pc' = "gotip"
    /\ ev_pre' = RetryCounter
    /\ disc_run' = <<>>
    /\ UNCHANGED <<current_status, g_wm, wm_status, config_portal_timeout,
                   save_callback, timeout_timer, portal_aborted, config_saved, server,
                   timer_state, timer_deletes, wifi_mode, wifi_started, nvs_creds,
                   app_pc, ac_active, elapsed, portal_ret, ac_ret, ac_portal, ac_seen,
                   ac_gotip, poll_seen, sess_connected, sess_expired, submitted,
                   save_calls>>
    /\ UNCHANGED <<scanVars, webVars, extVars>>

\* IP_EVENT_STA_GOT_IP, first part: format and copy the address, reset the counter.
GotIpRecord ==
    /\ ev_pc = "idle"
    /\ sta \in {"assoc", "up"}
    /\ \E a \in Addrs :
        /\ ip_address' = a
        /\ ev_addr' = a
        /\ wm_ip_address' = IF g_wm THEN a ELSE wm_ip_address
    /\ IF g_wm
       THEN wm_retry_count' = 0 /\ UNCHANGED retry_count
       ELSE retry_count' = 0 /\ UNCHANGED wm_retry_count
    /\ sta' = "up"
    /\ ev_pc' = "gotip"
    /\ ev_pre' = RetryCounter
    /\ disc_run' = <<>>
    /\ UNCHANGED <<current_status, g_wm, wm_status, config_portal_timeout,
                   save_callback, timeout_timer, portal_aborted, config_saved, server,
                   timer_state, timer_deletes, wifi_mode, wifi_started, nvs_creds,
                   app_pc, ac_active, elapsed, portal_ret, ac_ret, ac_portal, ac_seen,
                   ac_gotip, poll_seen, sess_connected, sess_expired, submitted,
                   save_calls>>
    /\ UNCHANGED <<scanVars, webVars, extVars>>

\* IP_EVENT_STA_GOT_IP, second part: update_status(WIFI_STATUS_CONNECTED).
GotIpUpdate ==
    /\ ev_pc = "gotip"
    /\ update_status("CONNECTED")
    /\ ev_pc' = "idle"
    /\ ev_addr' = NoAddr
    /\ ev_pre' = 0
    /\ sess_connected' = (sess_connected \/ app_pc \in LoopPcs)
    /\ ac_gotip' = (ac_gotip \/ ac_active)
    /\ UNCHANGED <<ip_address, retry_count, g_wm, wm_ip_address, wm_retry_count,
                   config_portal_timeout, save_callback, timeout_timer, portal_aborted,
                   config_saved, server, envVars, app_pc, ac_active, elapsed,
                   disc_run, portal_ret, ac_ret, ac_portal, ac_seen, poll_seen,
                   sess_expired, submitted, save_calls>>
    /\ UNCHANGED <<scanVars, webVars, user_callback, apVars, selVars, cfgVars, stale_abort>>

-----------------------------------------------------------------------------
(* wifi_manager_web.c                                                      *)

\* The portal can be reached over the soft AP, or over the station link.
Reachable == server /\ wifi_started /\ (wifi_mode \in {"ap", "apsta"} \/ sta = "up")

\* Variant: the submission itself arms the saved flag.
connect_handler_ArmsSaved ==
    /\ Reachable
    /\ \E stored \in BOOLEAN : nvs_creds' = (nvs_creds \/ stored)
    /\ wifi_mode' = "sta"
    /\ sta' = "trying"
    /\ submitted' = TRUE
    /\ config_saved' = TRUE
    /\ UNCHANGED <<globalVars, wm_status, wm_ip_address, wm_retry_count,
                   config_portal_timeout, save_callback, timeout_timer, portal_aborted,
                   server, timer_state, timer_deletes, wifi_started,
                   ctlVars, ev_pre, disc_run, portal_ret, ac_ret, ac_portal, ac_seen,
                   ac_gotip, poll_seen, sess_connected, sess_expired, save_calls>>
    /\ UNCHANGED <<scanVars, webVars, extVars>>

\* connect_handler (POST /connect): store the credentials, switch the radio to
\* STA mode and issue a connect.
connect_handler ==
    /\ Reachable
    /\ \E stored \in BOOLEAN : nvs_creds' = (nvs_creds \/ stored)
    /\ wifi_mode' = "sta"
    /\ sta' = "trying"
    /\ submitted' = TRUE
    /\ UNCHANGED <<globalVars, wmVars, timer_state, timer_deletes, wifi_started,
                   ctlVars, ev_pre, disc_run, portal_ret, ac_ret, ac_portal, ac_seen,
                   ac_gotip, poll_seen, sess_connected, sess_expired, save_calls>>
    /\ UNCHANGED <<scanVars, webVars, extVars>>

\* start_webserver: httpd_start fills the handle; it fails, leaving the handle
\* as it was, when a server is already running.
start_webserver == server' = TRUE

\* stop_webserver.
stop_webserver == server' = FALSE

-----------------------------------------------------------------------------
(* wifi_manager_scan.c                                                     *)

\* trigger_wifi_scan: xTaskNotify(scan_task_handle, START, eSetValueWithOverwrite).
\* The handle is set by wifi_manager_create and stays set until destroy.
trigger_wifi_scan == notify' = SCAN_NOTIFICATION_START

-----------------------------------------------------------------------------
(* wifi_manager_api.c: setters                                             *)

wifi_manager_set_config_portal_timeout ==
    /\ app_pc = "idle"
    /\ \E t \in TimeoutChoices :
        /\ t # config_portal_timeout
        /\ config_portal_timeout' = t
    /\ UNCHANGED <<globalVars, wm_status, wm_ip_address, wm_retry_count, save_callback,
                   timeout_timer, portal_aborted, config_saved, server, envVars,
                   ctlVars, obsVars>>
    /\ UNCHANGED <<scanVars, webVars, extVars>>

wifi_manager_set_save_config_callback ==
    /\ app_pc = "idle"
    /\ save_callback' = ~save_callback
    /\ UNCHANGED <<globalVars, wm_status, wm_ip_address, wm_retry_count,
                   config_portal_timeout, timeout_timer, portal_aborted, config_saved,
                   server, envVars, ctlVars, obsVars>>
    /\ UNCHANGED <<scanVars, webVars, extVars>>

-----------------------------------------------------------------------------
(* wifi_manager_api.c: wifi_manager_start_config_portal                    *)

\* Variant: the abort flag of the previous session is left as it is.
PortalEnter_KeepsAbort ==
    /\ app_pc \in {"idle", "a_portal"}
    /\ portal_aborted' = portal_aborted
    /\ config_saved' = FALSE
    /\ wm_status' = "CONFIG_PORTAL"
    /\ app_pc' = "p_ap"
    /\ portal_ret' = "none"
    /\ ac_ret' = "none"
    /\ ac_portal' = ac_active
    /\ ac_seen' = IF ac_active THEN ac_seen ELSE "none"
    /\ ac_gotip' = IF ac_active THEN ac_gotip ELSE FALSE
    /\ poll_seen' = "none"
    /\ sess_connected' = FALSE
    /\ sess_expired' = FALSE
    /\ submitted' = FALSE
    /\ save_calls' = 0
    /\ stale_abort' = portal_aborted
    /\ UNCHANGED <<globalVars, wm_ip_address, wm_retry_count, config_portal_timeout,
                   save_callback, timeout_timer, server, envVars, ac_active, elapsed,
                   ev_pc, ev_addr, ev_pre, disc_run>>
    /\ UNCHANGED <<scanVars, webVars, cbVars, apVars, selVars, cfgVars>>

\* Entry: reset the session flags, write the instance status directly.
PortalEnter ==
    /\ app_pc \in {"idle", "a_portal"}
    /\ portal_aborted' = FALSE
    /\ config_saved' = FALSE
    /\ wm_status' = "CONFIG_PORTAL"
    /\ app_pc' = "p_ap"
    /\ portal_ret' = "none"
    /\ ac_ret' = "none"
    /\ ac_portal' = ac_active
    /\ ac_seen' = IF ac_active THEN ac_seen ELSE "none"
    /\ ac_gotip' = IF ac_active THEN ac_gotip ELSE FALSE
    /\ poll_seen' = "none"
    /\ sess_connected' = FALSE
    /\ sess_expired' = FALSE
    /\ submitted' = FALSE
    /\ save_calls' = 0
    /\ stale_abort' = portal_aborted
    /\ UNCHANGED <<globalVars, wm_ip_address, wm_retry_count, config_portal_timeout,
                   save_callback, timeout_timer, server, envVars, ac_active, elapsed,
                   ev_pc, ev_addr, ev_pre, disc_run>>
    /\ UNCHANGED <<scanVars, webVars, cbVars, apVars, selVars, cfgVars>>

\* The password the AP is configured with: the argument, else wm->ap_password
\* when it is not empty (it is zeroed by wifi_manager_create and written
\* nowhere else), else none.
ApPassword(arg) == IF arg.set THEN arg ELSE NullPtr

\* Variant: any non-empty password protects the AP.
ApAuthMode_AnyPassword(arg) ==
    IF ApPassword(arg).set /\ Len(ApPassword(arg).str) >= 1
    THEN "WPA2_PSK" ELSE "OPEN"

\* The authmode of the AP configuration: WPA2-PSK for a password of at least
\* 8 characters, open otherwise.
ApAuthMode(arg) ==
    IF ApPassword(arg).set /\ Len(ApPassword(arg).str) >= 8
    THEN "WPA2_PSK" ELSE "OPEN"

\* esp_wifi_stop, the AP configuration, set_mode(APSTA), set_config,
\* esp_wifi_disconnect, esp_wifi_start.
PortalApStart ==
    /\ app_pc = "p_ap"
    /\ ap_authmode' = ApAuthMode(ap_password_arg)
    /\ wifi_mode' = "apsta"
    /\ wifi_started' = TRUE
    /\ sta' = "idle"
    /\ app_pc' = "p_web"
    /\ UNCHANGED <<globalVars, wmVars, timer_state, timer_deletes, nvs_creds,
                   ac_active, elapsed, ev_pc, ev_addr, obsVars>>
    /\ UNCHANGED <<scanVars, webVars, cbVars, ap_password_arg, selVars, cfgVars,
                   stale_abort>>

\* start_webserver(); update_status(WIFI_STATUS_AP_MODE).
PortalWebStart ==
    /\ app_pc = "p_web"
    /\ start_webserver
    /\ update_status("AP_MODE")
    /\ app_pc' = "p_scan"
    /\ UNCHANGED <<ip_address, retry_count, g_wm, wm_ip_address, wm_retry_count,
                   config_portal_timeout, save_callback, timeout_timer, portal_aborted,
                   config_saved, envVars, ac_active, elapsed, ev_pc, ev_addr, obsVars>>
    /\ UNCHANGED <<scanVars, webVars, user_callback, apVars, selVars, cfgVars, stale_abort>>

\* vTaskDelay(2000); trigger_wifi_scan(wm).
PortalScan ==
    /\ app_pc = "p_scan"
    /\ trigger_wifi_scan
    /\ app_pc' = "p_timer"
    /\ UNCHANGED <<globalVars, wmVars, envVars, ac_active, elapsed, ev_pc, ev_addr,
                   obsVars>>
    /\ UNCHANGED <<scan_pc, scan_active, scan_completed, scanned_count,
                   scanned_networks, ap_records, webVars, extVars>>

\* Timer set-up: xTimerCreate may return NULL; a created timer is started.
PortalTimerSetup ==
    /\ app_pc = "p_timer"
    /\ IF config_portal_timeout > 0
       THEN \E created \in BOOLEAN :
              /\ timeout_timer' = created
              /\ timer_state' = IF created THEN "active" ELSE "none"
       ELSE /\ timeout_timer' = timeout_timer
            /\ timer_state' = "none"
    /\ timer_deletes' = 0
    /\ app_pc' = "p_test"
    /\ UNCHANGED <<globalVars, wm_status, wm_ip_address, wm_retry_count,
                   config_portal_timeout, save_callback, portal_aborted, config_saved,
                   server, wifi_mode, wifi_started, sta, nvs_creds, ac_active, elapsed,
                   ev_pc, ev_addr, obsVars>>
    /\ UNCHANGED <<scanVars, webVars, extVars>>

\* while (!wm->portal_aborted && !wm->config_saved)
PortalLoopTest ==
    /\ app_pc = "p_test"
    /\ app_pc' = IF ~portal_aborted /\ ~config_saved THEN "p_poll_timer"
                 ELSE "p_cleanup"
    /\ stale_abort' = FALSE
    /\ UNCHANGED <<globalVars, wmVars, envVars, ac_active, elapsed, ev_pc, ev_addr,
                   obsVars>>
    /\ UNCHANGED <<scanVars, webVars, cbVars, apVars, selVars, cfgVars>>

\* vTaskDelay(1000); if (timer && !xTimerIsTimerActive(timer)) break;
PortalPollTimer ==
    /\ app_pc = "p_poll_timer"
    /\ app_pc' = IF timeout_timer /\ timer_state # "active" THEN "p_cleanup"
                 ELSE "p_poll_status"
    /\ UNCHANGED <<globalVars, wmVars, envVars, ac_active, elapsed, ev_pc, ev_addr,
                   obsVars>>
    /\ UNCHANGED <<scanVars, webVars, extVars>>

\* if (current_status == WIFI_STATUS_CONNECTED) { config_saved = true; break; }
PortalPollStatus ==
    /\ app_pc = "p_poll_status"
    /\ poll_seen' = current_status
    /\ IF current_status = "CONNECTED"
       THEN config_saved' = TRUE /\ app_pc' = "p_cleanup"
       ELSE config_saved' = config_saved /\ app_pc' = "p_test"
    /\ UNCHANGED <<globalVars, wm_status, wm_ip_address, wm_retry_count,
                   config_portal_timeout, save_callback, timeout_timer, portal_aborted,
                   server, envVars, ac_active, elapsed, ev_pc, ev_addr, ev_pre,
                   disc_run, portal_ret, ac_ret, ac_portal, ac_seen, ac_gotip,
                   sess_connected, sess_expired, submitted, save_calls>>
    /\ UNCHANGED <<scanVars, webVars, extVars>>

\* Variant: the timer is deleted but the handle is left dangling.
PortalCleanup_KeepsHandle ==
    /\ app_pc = "p_cleanup"
    /\ IF timeout_timer
       THEN /\ timer_state' = "deleted"
            /\ timer_deletes' = timer_deletes + 1
            /\ timeout_timer' = timeout_timer
       ELSE UNCHANGED <<timer_state, timer_deletes, timeout_timer>>
    /\ app_pc' = "p_result"
    /\ UNCHANGED <<globalVars, wm_status, wm_ip_address, wm_retry_count,
                   config_portal_timeout, save_callback, portal_aborted, config_saved,
                   server, wifi_mode, wifi_started, sta, nvs_creds, ac_active, elapsed,
                   ev_pc, ev_addr, obsVars>>
    /\ UNCHANGED <<scanVars, webVars, extVars>>

\* Timer clean-up: xTimerStop, xTimerDelete, handle = NULL.
PortalCleanup ==
    /\ app_pc = "p_cleanup"
    /\ IF timeout_timer
       THEN /\ timer_state' = "deleted"
            /\ timer_deletes' = timer_deletes + 1
            /\ timeout_timer' = FALSE
       ELSE UNCHANGED <<timer_state, timer_deletes, timeout_timer>>
    /\ app_pc' = "p_result"
    /\ UNCHANGED <<globalVars, wm_status, wm_ip_address, wm_retry_count,
                   config_portal_timeout, save_callback, portal_aborted, config_saved,
                   server, wifi_mode, wifi_started, sta, nvs_creds, ac_active, elapsed,
                   ev_pc, ev_addr, obsVars>>
    /\ UNCHANGED <<scanVars, webVars, extVars>>

\* Variant: the save callback runs whatever the outcome.
PortalResult_CallbackAlways ==
    /\ app_pc = "p_result"
    /\ save_calls' = IF save_callback THEN save_calls + 1 ELSE save_calls
    /\ portal_ret' = IF config_saved THEN "true" ELSE "false"
    /\ app_pc' = IF ac_active THEN "a_ret" ELSE "idle"
    /\ UNCHANGED <<globalVars, wmVars, envVars, ac_active, elapsed, ev_pc, ev_addr,
                   ev_pre, disc_run, ac_ret, ac_portal, ac_seen, ac_gotip, poll_seen,
                   sess_connected, sess_expired, submitted>>
    /\ UNCHANGED <<scanVars, webVars, extVars>>

\* Result: the save callback runs on success, then the call returns.
PortalResult ==
    /\ app_pc = "p_result"
    /\ IF config_saved
       THEN /\ save_calls' = IF save_callback THEN save_calls + 1 ELSE save_calls
            /\ portal_ret' = "true"
       ELSE /\ save_calls' = save_calls
            /\ portal_ret' = "false"
    /\ app_pc' = IF ac_active THEN "a_ret" ELSE "idle"
    /\ UNCHANGED <<globalVars, wmVars, envVars, ac_active, elapsed, ev_pc, ev_addr,
                   ev_pre, disc_run, ac_ret, ac_portal, ac_seen, ac_gotip, poll_seen,
                   sess_connected, sess_expired, submitted>>
    /\ UNCHANGED <<scanVars, webVars, extVars>>

-----------------------------------------------------------------------------
(* wifi_manager_api.c: wifi_manager_destroy                                *)

wifi_manager_destroy ==
    /\ app_pc = "idle"
    /\ IF timeout_timer
       THEN /\ timer_state' = "deleted"
            /\ timer_deletes' = timer_deletes + 1
       ELSE UNCHANGED <<timer_state, timer_deletes>>
    /\ stop_webserver
    /\ g_wm' = FALSE
    /\ app_pc' = "destroyed"
    /\ UNCHANGED <<current_status, ip_address, retry_count, wm_status, wm_ip_address,
                   wm_retry_count, config_portal_timeout, save_callback, timeout_timer,
                   portal_aborted, config_saved, wifi_mode, wifi_started, sta,
                   nvs_creds, ac_active, elapsed, ev_pc, ev_addr, obsVars>>
    /\ UNCHANGED <<scanVars, webVars, extVars>>

-----------------------------------------------------------------------------
(* wifi_manager_api.c: wifi_manager_auto_connect and wifi_manager_start    *)

\* load_wifi_credentials(...) == ESP_OK && strlen(saved_ssid) > 0
ACLoad ==
    /\ app_pc = "idle"
    /\ ac_active' = TRUE
    /\ \E nvs_ok \in BOOLEAN :
        app_pc' = IF nvs_creds /\ nvs_ok THEN "s_begin" ELSE "a_portal"
    /\ elapsed' = 0
    /\ portal_ret' = "none"
    /\ ac_ret' = "none"
    /\ ac_portal' = FALSE
    /\ ac_seen' = "none"
    /\ ac_gotip' = FALSE
    /\ UNCHANGED <<globalVars, wmVars, envVars, ev_pc, ev_addr, ev_pre, disc_run,
                   poll_seen, sess_connected, sess_expired, submitted, save_calls>>
    /\ UNCHANGED <<scanVars, webVars, extVars>>

\* wifi_manager_start up to the scan request: with credentials the radio is put
\* in STA mode and started, the scan state is reset and a scan is requested;
\* without, the legacy AP branch runs and returns ESP_OK.
StartBegin ==
    /\ app_pc = "s_begin"
    /\ \E nvs_ok \in BOOLEAN :
        IF nvs_creds /\ nvs_ok
        THEN /\ wifi_mode' = "sta"
             /\ wifi_started' = TRUE
             /\ scan_completed' = FALSE
             /\ scanned_count' = 0
             /\ trigger_wifi_scan
             /\ app_pc' = "s_scanwait"
             /\ UNCHANGED <<current_status, wm_status, server, cb_run,
                            ap_authmode>>
        ELSE /\ wifi_mode' = "ap"
             /\ wifi_started' = TRUE
             /\ start_webserver
             /\ update_status("AP_MODE")
             /\ ap_authmode' = "WPA_WPA2_PSK"
             /\ app_pc' = "a_wait"
             /\ UNCHANGED <<notify, scan_completed, scanned_count>>
    /\ UNCHANGED <<ip_address, retry_count, g_wm, wm_ip_address, wm_retry_count,
                   config_portal_timeout, save_callback, timeout_timer, portal_aborted,
                   config_saved, timer_state, timer_deletes, sta, nvs_creds, ac_active,
                   elapsed, ev_pc, ev_addr, obsVars>>
    /\ UNCHANGED <<scan_pc, scan_active, scanned_networks, ap_records, webVars,
                   user_callback, ap_password_arg, selVars, cfgVars, stale_abort>>

\* The array is zeroed by wifi_manager_create; an entry never written reads
\* as an empty name.
ZeroRecord == [ssid |-> "", rssi |-> 0, is_hidden |-> FALSE]
NetworkAt(nets, i) == IF i <= Len(nets) THEN nets[i] ELSE ZeroRecord

\* wifi_manager_start, the search loop from entry i (1-based here) on: best is
\* the pair strongest_index / strongest_rssi so far.
RECURSIVE StrongestFrom(_, _, _, _, _)
StrongestFrom(nets, count, ssid, i, best) ==
    IF i > count \/ i > MAX_SCANNED_NETWORKS THEN best
    ELSE LET r == NetworkAt(nets, i)
         IN  StrongestFrom(nets, count, ssid, i + 1,
                IF r.ssid = ssid /\ r.rssi > best.rssi
                THEN [index |-> i - 1, rssi |-> r.rssi]
                ELSE best)

\* wifi_manager_start: strongest_index after the search (-1 = no record),
\* starting from strongest_index = -1 and strongest_rssi = -128.
StrongestIndex(nets, count, ssid) ==
    StrongestFrom(nets, count, ssid, 1, [index |-> -1, rssi |-> -128]).index

\* wifi_manager_start: the bounded wait for the scan, then the search for the
\* saved name in the scan results.
StartScanWait ==
    /\ app_pc = "s_scanwait"
    /\ strongest_index' = StrongestIndex(scanned_networks, scanned_count, saved_ssid)
    /\ app_pc' = "s_connect"
    /\ UNCHANGED <<globalVars, wmVars, envVars, ac_active, elapsed, ev_pc, ev_addr,
                   obsVars>>
    /\ UNCHANGED <<scanVars, webVars, cbVars, apVars, saved_ssid, cfgVars,
                   stale_abort>>

\* wifi_manager_start: update_status(CONNECTING); esp_wifi_connect().
StartConnect ==
    /\ app_pc = "s_connect"
    /\ update_status("CONNECTING")
    /\ \E issued \in BOOLEAN :
        IF issued
        THEN sta' = "trying" /\ app_pc' = "a_wait"
        ELSE sta' = sta /\ app_pc' = "a_portal"
    /\ UNCHANGED <<ip_address, retry_count, g_wm, wm_ip_address, wm_retry_count,
                   config_portal_timeout, save_callback, timeout_timer, portal_aborted,
                   config_saved, server, timer_state, timer_deletes, wifi_mode,
                   wifi_started, nvs_creds, ac_active, elapsed, ev_pc, ev_addr, obsVars>>
    /\ UNCHANGED <<scanVars, webVars, user_callback, apVars, selVars, cfgVars, stale_abort>>

\* while (elapsed < max && status != CONNECTED && status != DISCONNECTED) delay;
ACWait ==
    /\ app_pc = "a_wait"
    /\ IF elapsed < MaxWaitPolls /\ current_status \notin {"CONNECTED", "DISCONNECTED"}
       THEN elapsed' = elapsed + 1 /\ app_pc' = "a_wait"
       ELSE elapsed' = elapsed /\ app_pc' = "a_check"
    /\ UNCHANGED <<globalVars, wmVars, envVars, ac_active, ev_pc, ev_addr, obsVars>>
    /\ UNCHANGED <<scanVars, webVars, extVars>>

\* Variant: anything but Disconnected counts as success.
ACCheck_NotDisconnected ==
    /\ app_pc = "a_check"
    /\ ac_seen' = current_status
    /\ IF current_status # "DISCONNECTED"
       THEN app_pc' = "idle" /\ ac_ret' = "true" /\ ac_active' = FALSE
       ELSE app_pc' = "a_portal" /\ ac_ret' = ac_ret /\ ac_active' = ac_active
    /\ UNCHANGED <<globalVars, wmVars, envVars, elapsed, ev_pc, ev_addr, ev_pre,
                   disc_run, portal_ret, ac_portal, ac_gotip, poll_seen,
                   sess_connected, sess_expired, submitted, save_calls>>
    /\ UNCHANGED <<scanVars, webVars, extVars>>

\* if (current_status == WIFI_STATUS_CONNECTED) return true; else start the portal.
ACCheck ==
    /\ app_pc = "a_check"
    /\ ac_seen' = current_status
    /\ IF current_status = "CONNECTED"
       THEN app_pc' = "idle" /\ ac_ret' = "true" /\ ac_active' = FALSE
       ELSE app_pc' = "a_portal" /\ ac_ret' = ac_ret /\ ac_active' = ac_active
    /\ UNCHANGED <<globalVars, wmVars, envVars, elapsed, ev_pc, ev_addr, ev_pre,
                   disc_run, portal_ret, ac_portal, ac_gotip, poll_seen,
                   sess_connected, sess_expired, submitted, save_calls>>
    /\ UNCHANGED <<scanVars, webVars, extVars>>

\* return wifi_manager_start_config_portal(...)
ACReturn ==
    /\ app_pc = "a_ret"
    /\ ac_ret' = portal_ret
    /\ ac_active' = FALSE
    /\ app_pc' = "idle"
    /\ UNCHANGED <<globalVars, wmVars, envVars, elapsed, ev_pc, ev_addr, ev_pre,
                   disc_run, portal_ret, ac_portal, ac_seen, ac_gotip, poll_seen,
                   sess_connected, sess_expired, submitted, save_calls>>
    /\ UNCHANGED <<scanVars, webVars, extVars>>

-----------------------------------------------------------------------------

AppStep ==
    \/ PortalApStart \/ PortalWebStart \/ PortalScan \/ PortalTimerSetup
    \/ PortalLoopTest \/ PortalPollTimer \/ PortalPollStatus \/ PortalCleanup
    \/ PortalResult \/ StartBegin \/ StartScanWait \/ StartConnect
    \/ ACWait \/ ACCheck \/ ACReturn
    \/ (app_pc = "a_portal" /\ PortalEnter)

Next ==
    \/ TimerExpire
    \/ StaConnected
    \/ StaDisconnected
    \/ GotIpRecord
    \/ GotIpUpdate
    \/ connect_handler
    \/ wifi_manager_set_config_portal_timeout
    \/ wifi_manager_set_save_config_callback
    \/ PortalEnter
    \/ PortalApStart
    \/ PortalWebStart
    \/ PortalScan
    \/ PortalTimerSetup
    \/ PortalLoopTest
    \/ PortalPollTimer
    \/ PortalPollStatus
    \/ PortalCleanup
    \/ PortalResult
    \/ wifi_manager_destroy
    \/ ACLoad
    \/ StartBegin
    \/ StartScanWait
    \/ StartConnect
    \/ ACWait
    \/ ACCheck
    \/ ACReturn

Spec == Init /\ [][Next]_vars

\* Scheduling: the application task, once inside a call, keeps running; a
\* started one-shot timer expires unless it is stopped first; the event task
\* finishes the handler it has begun. Driver events, HTTP requests and new API
\* calls are not obliged to happen.
FairSpec ==
    /\ Spec
    /\ WF_vars(AppStep)
    /\ WF_vars(TimerExpire)
    /\ WF_vars(GotIpUpdate)

-----------------------------------------------------------------------------
(* Scan coordinator: wifi_scan_task, the scan-done event and the HTTP      *)
(* handlers that request a scan.                                           *)

\* GET / requests the model lets a client make.
MaxPageRequests == 2

\* A scan record as the driver reports it (ssid "" = hidden network).
ApRecord(ssid, rssi) == [ssid |-> ssid, rssi |-> rssi]

\* Batches esp_wifi_scan_get_ap_records hands to the scan task.
ScanResults ==
    { <<>>,
      <<ApRecord("HomeNet", -55)>>,
      <<ApRecord("HomeNet", -70), ApRecord("", -60)>> }

\* ulTaskNotifyTake(pdTRUE, portMAX_DELAY) and the dispatch on its value: a
\* start request is dropped while the instance status is Connected.
ScanTake ==
    /\ scan_pc = "wait"
    /\ notify # 0
    /\ notify' = 0
    /\ IF notify = SCAN_NOTIFICATION_START
       THEN /\ scan_pc' = IF wm_status = "CONNECTED" THEN "wait" ELSE "start"
            /\ start_taken' = TRUE
       ELSE /\ scan_pc' = IF notify = SCAN_NOTIFICATION_COMPLETE THEN "fetch"
                          ELSE "wait"
            /\ start_taken' = start_taken
    /\ UNCHANGED <<vars, extVars, scan_active, scan_completed, scanned_count,
                   scanned_networks, ap_records, minimum_signal_quality, listed,
                   served, page_requests>>

\* Start branch after the status check: mode check, reset of the scan state,
\* esp_wifi_scan_start (non-blocking; it may refuse).
ScanStart ==
    /\ scan_pc = "start"
    /\ scan_pc' = "wait"
    /\ IF wifi_mode \in {"apsta", "sta"}
       THEN /\ scanned_count' = 0
            /\ \E started \in BOOLEAN :
                 /\ scan_active' = (scan_active \/ started)
                 /\ scan_completed' = ~started
                 /\ start_taken' = started
       ELSE /\ scan_completed' = TRUE
            /\ start_taken' = FALSE
            /\ UNCHANGED <<scanned_count, scan_active>>
    /\ UNCHANGED <<vars, extVars, notify, scanned_networks, ap_records,
                   minimum_signal_quality, listed, served,
                   page_requests>>

\* Complete branch, first part: esp_wifi_scan_get_ap_records and the write of
\* scanned_count.
ScanFetch ==
    /\ scan_pc = "fetch"
    /\ \E fetched \in BOOLEAN :
        IF fetched
        THEN /\ \E b \in ScanResults :
                  /\ ap_records' = b
                  /\ scanned_count' = Len(b)
             /\ scan_pc' = "copy"
             /\ UNCHANGED <<scan_completed, start_taken>>
        ELSE /\ scanned_count' = 0
             /\ scan_completed' = TRUE
             /\ start_taken' = FALSE
             /\ scan_pc' = "wait"
             /\ UNCHANGED ap_records
    /\ UNCHANGED <<vars, extVars, notify, scan_active, scanned_networks,
                   minimum_signal_quality, listed, served,
                   page_requests>>

\* The record the scan task stores for a driver record: ssid, rssi and the
\* hidden mark (strlen(ssid) == 0).
StoredRecord(r) == [ssid |-> r.ssid, rssi |-> r.rssi, is_hidden |-> (r.ssid = "")]

\* Complete branch, second part: the copy loop over ap_records, then the
\* completion flag. Entries beyond ap_num keep what they held.
ScanCopy ==
    /\ scan_pc = "copy"
    /\ scanned_networks' =
          [i \in 1..(IF Len(ap_records) > Len(scanned_networks)
                     THEN Len(ap_records) ELSE Len(scanned_networks)) |->
              IF i <= Len(ap_records) THEN StoredRecord(ap_records[i])
              ELSE scanned_networks[i]]
    /\ scan_completed' = TRUE
    /\ start_taken' = FALSE
    /\ ap_records' = <<>>
    /\ scan_pc' = "wait"
    /\ UNCHANGED <<vars, extVars, notify, scan_active, scanned_count,
                   minimum_signal_quality, listed, served,
                   page_requests>>

\* WIFI_EVENT_SCAN_DONE: wifi_event_handler calls wifi_scan_done_handler,
\* which overwrites the task's notification value with COMPLETE.
ScanDone ==
    /\ ev_pc = "idle"
    /\ scan_active
    /\ scan_active' = FALSE
    /\ notify' = IF g_wm THEN SCAN_NOTIFICATION_COMPLETE ELSE notify
    /\ UNCHANGED <<vars, extVars, scan_pc, scan_completed, scanned_count,
                   scanned_networks, ap_records, webVars>>

\* setup_page_handler (GET /): a scan is requested unless the status is Connected.
setup_page_handler ==
    /\ Reachable
    /\ g_wm
    /\ page_requests < MaxPageRequests
    /\ page_requests' = page_requests + 1
    /\ IF current_status = "CONNECTED"
       THEN notify' = notify
       ELSE trigger_wifi_scan
    /\ UNCHANGED <<vars, extVars, scan_pc, scan_active, scan_completed, scanned_count,
                   scanned_networks, ap_records, minimum_signal_quality, listed,
                   served, start_taken>>

-----------------------------------------------------------------------------
(* wifi_list_handler (GET /wifi): the selection algorithm                  *)

\* First pass: which records are skipped.
Skipped_Never(r) == FALSE
Skipped(r) == r.ssid = "" \/ r.is_hidden

\* First pass: the inner search loop, the first index holding the name (0 = none).
IndexOfSsid(uniq, ssid) ==
    LET S == {j \in 1..Len(uniq) : uniq[j].ssid = ssid}
    IN  IF S = {} THEN 0 ELSE CHOOSE j \in S : \A k \in S : j <= k

\* First pass: which of two records of one name is kept.
KeepStronger_KeepsFirst(old, new) == old
KeepStronger(old, new) == IF new.rssi > old.rssi THEN new ELSE old

\* First pass: records i .. count folded into the unique list.
RECURSIVE CollectUnique(_, _, _, _)
CollectUnique(nets, count, i, uniq) ==
    IF i > count THEN uniq
    ELSE LET r == NetworkAt(nets, i)
             k == IndexOfSsid(uniq, r.ssid)
         IN  CollectUnique(nets, count, i + 1,
                IF Skipped(r) THEN uniq
                ELSE IF k > 0 THEN [uniq EXCEPT ![k] = KeepStronger(uniq[k], r)]
                ELSE IF Len(uniq) < MAX_SCANNED_NETWORKS THEN Append(uniq, r)
                ELSE uniq)

\* Second pass: the exchange test of the sort.
SwapNeeded_Ascending(a, b) == b.rssi < a.rssi
SwapNeeded(a, b) == b.rssi > a.rssi

\* Second pass: the inner loop (j from i + 1) and the outer loop.
RECURSIVE SortInner(_, _, _)
SortInner(u, i, j) ==
    IF j > Len(u) THEN u
    ELSE SortInner(IF SwapNeeded(u[i], u[j])
                   THEN [u EXCEPT ![i] = u[j], ![j] = u[i]] ELSE u,
                   i, j + 1)

RECURSIVE SortOuter(_, _)
SortOuter(u, i) ==
    IF i >= Len(u) THEN u ELSE SortOuter(SortInner(u, i, i + 1), i + 1)

\* Third pass: RSSI to quality percentage.
Quality_Shifted(rssi) ==
    IF rssi >= -50 THEN 100
    ELSE IF rssi > -60 THEN 90
    ELSE IF rssi >= -70 THEN 70
    ELSE IF rssi >= -80 THEN 50
    ELSE IF rssi >= -90 THEN 25
    ELSE 10

Quality(rssi) ==
    IF rssi >= -50 THEN 100
    ELSE IF rssi >= -60 THEN 90
    ELSE IF rssi >= -70 THEN 70
    ELSE IF rssi >= -80 THEN 50
    ELSE IF rssi >= -90 THEN 25
    ELSE 10

\* The networks array of the response: one entry per unique record, in order.
NetworkList(nets, count) ==
    LET u == SortOuter(CollectUnique(nets, count, 1, <<>>), 1)
    IN  [k \in 1..Len(u) |->
            [ssid |-> u[k].ssid, rssi |-> u[k].rssi, quality |-> Quality(u[k].rssi)]]

\* wifi_list_handler: no networks while Connected or before a completed,
\* non-empty scan; otherwise the selection over the first scanned_count entries.
wifi_list_handler ==
    /\ Reachable
    /\ g_wm
    /\ served' = TRUE
    /\ listed' = IF current_status # "CONNECTED" /\ scan_completed /\ scanned_count > 0
                 THEN NetworkList(scanned_networks, scanned_count)
                 ELSE <<>>
    /\ UNCHANGED <<vars, extVars, scanVars, minimum_signal_quality, page_requests,
                   start_taken>>

\* Values wifi_manager_set_minimum_signal_quality is called with.
QualityChoices == {-5, 8, 20, 150}

\* wifi_manager_set_minimum_signal_quality: MAX(0, MIN(100, quality)).
wifi_manager_set_minimum_signal_quality ==
    /\ app_pc = "idle"
    /\ \E quality \in QualityChoices :
        LET clamped == IF quality > 100 THEN 100
                       ELSE IF quality < 0 THEN 0 ELSE quality
        IN  /\ clamped # minimum_signal_quality
            /\ minimum_signal_quality' = clamped
    /\ UNCHANGED <<vars, extVars, scanVars, listed, served, page_requests, start_taken>>

-----------------------------------------------------------------------------
(* Scan coordinator under a running portal.  The application task starts   *)
(* the portal and requests the initial scan; what it does afterwards (the  *)
(* timer and the wait loop) touches no scan state and is left out here.    *)
(* The event task, the HTTP handlers and the scan task run freely.         *)

ScanTaskStep == ScanTake \/ ScanStart \/ ScanFetch \/ ScanCopy

ScanNext ==
    \/ PortalEnter
    \/ PortalApStart
    \/ PortalWebStart
    \/ PortalScan
    \/ StaConnected
    \/ StaDisconnected
    \/ GotIpRecord
    \/ GotIpUpdate
    \/ ScanDone
    \/ connect_handler
    \/ setup_page_handler
    \/ wifi_list_handler
    \/ ScanTake
    \/ ScanStart
    \/ ScanFetch
    \/ ScanCopy

SpecScan == Init /\ [][ScanNext]_allVars

\* Scheduling: the scan task runs whenever it has something to do; the driver
\* reports the end of every scan it started and the event queue is served in
\* order, so the report is handled however many other events arrive (strong
\* fairness); the event task finishes the handler it has begun. Requests and
\* connection events need not happen.
FairScan ==
    /\ SpecScan
    /\ WF_allVars(ScanTaskStep)
    /\ SF_allVars(ScanDone)
    /\ WF_allVars(GotIpUpdate)

-----------------------------------------------------------------------------
(* The selection algorithm on its own: a portal session has timed out (the *)
(* HTTP server stays up, the application is between calls) and a scan      *)
(* completion has stored one batch; GET /wifi is served from it.           *)

\* Longest batch enumerated in full.
MaxBatchLen == 3

ListSsids == {"", "HomeNet", "Cafe", "Lab"}
ListRssi == {-95, -70, -55}
Int8 == -128..127

\* Batches the driver delivers: every sequence of up to MaxBatchLen records
\* over the names and strengths above, and every single record of the int8_t
\* range.
ListBatches ==
    (UNION {[1..n -> {ApRecord(n_, r) : n_ \in ListSsids, r \in ListRssi}] :
                n \in 0..MaxBatchLen})
    \cup {<<ApRecord("HomeNet", r)>> : r \in Int8}

\* The state of the connection side after a portal call with the default
\* timeout has timed out without any submission.
PortalTimedOut ==
    /\ current_status = "AP_MODE"
    /\ ip_address = NoAddr
    /\ retry_count = 0
    /\ g_wm = TRUE
    /\ wm_status = "AP_MODE"
    /\ wm_ip_address = NoAddr
    /\ wm_retry_count = 0
    /\ config_portal_timeout = WIFI_MANAGER_DEFAULT_TIMEOUT
    /\ save_callback = FALSE
    /\ timeout_timer = FALSE
    /\ portal_aborted = TRUE
    /\ config_saved = FALSE
    /\ server = TRUE
    /\ timer_state = "deleted"
    /\ timer_deletes = 1
    /\ wifi_mode = "apsta"
    /\ wifi_started = TRUE
    /\ sta = "idle"
    /\ nvs_creds = FALSE
    /\ app_pc = "idle"
    /\ ac_active = FALSE
    /\ elapsed = 0
    /\ ev_pc = "idle"
    /\ ev_addr = NoAddr
    /\ ev_pre = 0
    /\ disc_run = <<>>
    /\ portal_ret = "false"
    /\ ac_ret = "none"
    /\ ac_portal = FALSE
    /\ ac_seen = "none"
    /\ ac_gotip = FALSE
    /\ poll_seen = "none"
    /\ sess_connected = FALSE
    /\ sess_expired = TRUE
    /\ submitted = FALSE
    /\ save_calls = 0

\* The scan task has stored batch b and waits; nothing was served yet.
StoredBatch(b) ==
    /\ notify = 0
    /\ scan_pc = "wait"
    /\ scan_active = FALSE
    /\ scan_completed = TRUE
    /\ scanned_count = Len(b)
    /\ scanned_networks = [i \in 1..Len(b) |-> StoredRecord(b[i])]
    /\ ap_records = <<>>
    /\ minimum_signal_quality = 8
    /\ listed = <<>>
    /\ served = FALSE
    /\ page_requests = 0
    /\ start_taken = FALSE

ListInit ==
    /\ PortalTimedOut
    /\ \E b \in ListBatches : StoredBatch(b)
    /\ NoObserver
    /\ ap_password_arg = NullPtr
    /\ ap_authmode = "OPEN"
    /\ NoSelection
    /\ ParamsCreated
    /\ stale_abort = FALSE

ListNext ==
    \/ wifi_list_handler
    \/ wifi_manager_set_minimum_signal_quality

SpecList == ListInit /\ [][ListNext]_allVars

-----------------------------------------------------------------------------
(* The search of wifi_manager_start on its own: wifi_manager_auto_connect   *)
(* has found saved credentials, wifi_manager_start has put the radio in STA *)
(* mode and requested a scan, and the scan task has stored one batch.       *)

SavedSsids == {"HomeNet", "Cafe"}

\* The connection side when wifi_manager_start leaves its wait for the scan.
StartScanned ==
    /\ current_status = "DISCONNECTED"
    /\ ip_address = NoAddr
    /\ retry_count = 0
    /\ g_wm = TRUE
    /\ wm_status = "DISCONNECTED"
    /\ wm_ip_address = NoAddr
    /\ wm_retry_count = 0
    /\ config_portal_timeout = WIFI_MANAGER_DEFAULT_TIMEOUT
    /\ save_callback = FALSE
    /\ timeout_timer = FALSE
    /\ portal_aborted = FALSE
    /\ config_saved = FALSE
    /\ server = FALSE
    /\ timer_state = "none"
    /\ timer_deletes = 0
    /\ wifi_mode = "sta"
    /\ wifi_started = TRUE
    /\ sta = "idle"
    /\ nvs_creds = TRUE
    /\ app_pc = "s_scanwait"
    /\ ac_active = TRUE
    /\ elapsed = 0
    /\ ev_pc = "idle"
    /\ ev_addr = NoAddr
    /\ ev_pre = 0
    /\ disc_run = <<>>
    /\ portal_ret = "none"
    /\ ac_ret = "none"
    /\ ac_portal = FALSE
    /\ ac_seen = "none"
    /\ ac_gotip = FALSE
    /\ poll_seen = "none"
    /\ sess_connected = FALSE
    /\ sess_expired = FALSE
    /\ submitted = FALSE
    /\ save_calls = 0

StartInit ==
    /\ StartScanned
    /\ \E b \in ListBatches : StoredBatch(b)
    /\ NoObserver
    /\ ap_password_arg = NullPtr
    /\ ap_authmode = "none"
    /\ saved_ssid \in SavedSsids
    /\ strongest_index = -1
    /\ ParamsCreated
    /\ stale_abort = FALSE

StartNext ==
    \/ StartScanWait
    \/ StartConnect

SpecStart == StartInit /\ [][StartNext]_allVars

-----------------------------------------------------------------------------
(* wifi_manager_config.c: the configuration parameters                     *)

\* C library: character classes and the conversions the code calls.  The
\* strings of the model hold no exponent, hexadecimal, infinity or NaN form
\* and no white space other than the blank.
Digits == <<"0", "1", "2", "3", "4", "5", "6", "7", "8", "9">>
IsDigit(c) == \E d \in 1..10 : Digits[d] = c
DigitVal(c) == (CHOOSE d \in 1..10 : Digits[d] = c) - 1

RECURSIVE SkipSpace(_, _)
SkipSpace(s, i) == IF i <= Len(s) /\ s[i] = " " THEN SkipSpace(s, i + 1) ELSE i

RECURSIVE SkipDigits(_, _)
SkipDigits(s, i) == IF i <= Len(s) /\ IsDigit(s[i]) THEN SkipDigits(s, i + 1) ELSE i

AfterSign(s, i) == IF i <= Len(s) /\ s[i] \in {"+", "-"} THEN i + 1 ELSE i

\* The value of a run of digits.
RECURSIVE DigitsValue(_)
DigitsValue(s) ==
    IF s = <<>> THEN 0
    ELSE 10 * DigitsValue(SubSeq(s, 1, Len(s) - 1)) + DigitVal(s[Len(s)])

RECURSIVE Pow10(_)
Pow10(k) == IF k = 0 THEN 1 ELSE 10 * Pow10(k - 1)

\* strtol(s, &endptr, 10): the position endptr is left at (1 = the start of
\* the string when no digits are found, Len(s) + 1 = the terminating NUL).
StrtolEnd(s) ==
    LET a == AfterSign(s, SkipSpace(s, 1))
        e == SkipDigits(s, a)
    IN  IF e = a THEN 1 ELSE e

\* strtof(s, &endptr): likewise, for [sign] digits [. digits] and [sign] . digits.
StrtofEnd(s) ==
    LET a == AfterSign(s, SkipSpace(s, 1))
        e == SkipDigits(s, a)
        dot == e <= Len(s) /\ s[e] = "."
        f == IF dot THEN SkipDigits(s, e + 1) ELSE e
    IN  IF e > a THEN f
        ELSE IF dot /\ f > e + 1 THEN f
        ELSE 1

\* atoi(s): the integer strtol converts (0 when there is none).
Atoi(s) ==
    LET b == SkipSpace(s, 1)
        a == AfterSign(s, b)
        e == SkipDigits(s, a)
        v == DigitsValue(SubSeq(s, a, e - 1))
    IN  IF a > b /\ s[b] = "-" THEN 0 - v ELSE v

\* A number as cJSON carries it: sign, decimal mantissa m and the number k of
\* fraction digits (value m / 10^k); zero carries no sign.
Number(neg, m, k) == [neg |-> (neg /\ m # 0), m |-> m, k |-> k]

\* atof(s): the number strtod converts (0 when there is none).
Atof(s) ==
    LET b == SkipSpace(s, 1)
        a == AfterSign(s, b)
        e == SkipDigits(s, a)
        dot == e <= Len(s) /\ s[e] = "."
        f == IF dot THEN SkipDigits(s, e + 1) ELSE e
        int == SubSeq(s, a, e - 1)
        frac == IF dot THEN SubSeq(s, e + 1, f - 1) ELSE <<>>
    IN  IF StrtofEnd(s) = 1 THEN Number(FALSE, 0, 0)
        ELSE Number(a > b /\ s[b] = "-", DigitsValue(int \o frac), Len(frac))

\* Decimal digits of a natural number.
RECURSIVE DecDigits(_)
DecDigits(n) ==
    IF n < 10 THEN <<Digits[n + 1]>>
    ELSE Append(DecDigits(n \div 10), Digits[(n % 10) + 1])

\* snprintf("%d", n).
FormatD(n) == IF n < 0 THEN <<"-">> \o DecDigits(0 - n) ELSE DecDigits(n)

\* (int) of a number: truncation towards zero.
ToInt(x) == IF x.neg THEN 0 - (x.m \div Pow10(x.k)) ELSE x.m \div Pow10(x.k)

\* snprintf("%.2f", x): x rounded to hundredths (to nearest, to even on a
\* tie); the strings of the model are not near a tie, so the cast to float
\* that precedes it does not change the digits.
FormatF2(x) ==
    LET scaled == x.m * 100
        q0 == scaled \div Pow10(x.k)
        rem == scaled % Pow10(x.k)
        q == IF 2 * rem > Pow10(x.k) \/ (2 * rem = Pow10(x.k) /\ q0 % 2 = 1)
             THEN q0 + 1 ELSE q0
        cents == q % 100
    IN  (IF x.neg THEN <<"-">> ELSE <<>>)
        \o DecDigits(q \div 100) \o <<".">>
        \o <<Digits[(cents \div 10) + 1], Digits[(cents % 10) + 1]>>

\* The lookup loop of set_config_parameter and get_config_parameter: the
\* first entry with the key (0 = none).
FindParam(params, key) ==
    LET S == {i \in 1..Len(params) : params[i].key = key}
    IN  IF S = {} THEN 0 ELSE CHOOSE i \in S : \A j \in S : i <= j

\* set_config_parameter: the validation of a value for an entry.
ValidateParam(param, value) ==
    IF Len(value) > 0
    THEN IF param.type = "INT" /\ StrtolEnd(value) <= Len(value)
            THEN "ESP_ERR_INVALID_ARG"
         ELSE IF param.type = "FLOAT" /\ StrtofEnd(value) <= Len(value)
            THEN "ESP_ERR_INVALID_ARG"
         ELSE IF param.type = "BOOL"
                 /\ value \notin {<<"t", "r", "u", "e">>, <<"f", "a", "l", "s", "e">>,
                                  <<"1">>, <<"0">>}
            THEN "ESP_ERR_INVALID_ARG"
         ELSE IF param.type = "STRING" /\ Len(value) > param.max_length
            THEN "ESP_ERR_INVALID_ARG"
         ELSE "ESP_OK"
    ELSE IF param.required THEN "ESP_ERR_INVALID_ARG" ELSE "ESP_OK"

\* Variant: the value is copied into the entry before it is validated.
SetParam_CopiesFirst(params, key, value) ==
    LET i == FindParam(params, key)
    IN  IF i = 0 THEN [err |-> "ESP_ERR_NOT_FOUND", params |-> params]
        ELSE [err |-> ValidateParam(params[i], value),
              params |-> [params EXCEPT ![i].value = Stored(value)]]

\* set_config_parameter: the return code and the collection it leaves.
SetParam(params, key, value) ==
    LET i == FindParam(params, key)
    IN  IF i = 0 THEN [err |-> "ESP_ERR_NOT_FOUND", params |-> params]
        ELSE LET e == ValidateParam(params[i], value)
             IN  [err |-> e,
                  params |-> IF e = "ESP_OK"
                             THEN [params EXCEPT ![i].value = Stored(value)]
                             ELSE params]

\* save_config_parameters: the JSON item written for an entry.
JsonItem(param) ==
    [key |-> param.key,
     kind |-> IF param.type = "STRING" THEN "string"
              ELSE IF param.type = "BOOL" THEN "bool" ELSE "number",
     str |-> IF param.type = "STRING" THEN param.value ELSE <<>>,
     num |-> IF param.type = "INT"
             THEN Number(Atoi(param.value) < 0,
                         IF Atoi(param.value) < 0 THEN 0 - Atoi(param.value)
                         ELSE Atoi(param.value), 0)
             ELSE IF param.type = "FLOAT" THEN Atof(param.value)
             ELSE Number(FALSE, 0, 0),
     flag |-> (param.type = "BOOL"
               /\ param.value \in {<<"t", "r", "u", "e">>, <<"1">>})]

\* save_config_parameters: the object stored, one item per entry in order.
SaveJson(params) == [i \in 1..Len(params) |-> JsonItem(params[i])]

\* cJSON_GetObjectItem: the first item with the name (0 = none).
JsonFind(json, key) ==
    LET S == {i \in 1..Len(json) : json[i].key = key}
    IN  IF S = {} THEN 0 ELSE CHOOSE i \in S : \A j \in S : i <= j

\* load_config_parameters: the value an entry holds after the load.
LoadedValue(param, json) ==
    LET i == JsonFind(json, param.key)
    IN  IF i = 0 THEN param.value
        ELSE IF param.type = "STRING" /\ json[i].kind = "string"
            THEN Stored(json[i].str)
        ELSE IF param.type = "INT" /\ json[i].kind = "number"
            THEN FormatD(ToInt(json[i].num))
        ELSE IF param.type = "FLOAT" /\ json[i].kind = "number"
            THEN FormatF2(json[i].num)
        ELSE IF param.type = "BOOL" /\ json[i].kind = "bool"
            THEN (IF json[i].flag THEN <<"t", "r", "u", "e">>
                  ELSE <<"f", "a", "l", "s", "e">>)
        ELSE param.value

LoadJson(params, json) ==
    [i \in 1..Len(params) |-> [params[i] EXCEPT !.value = LoadedValue(params[i], json)]]

\* Parameter operations the model lets the application and the browser make.
MaxConfigOps == 3

\* A string longer than any parameter may hold.
LongValue == [i \in 1..MAX_CONFIG_STRING_LEN |-> "a"]

\* Keys and values wifi_manager_set_parameter is called with.
KeyChoices == {"mqtt_port", "mqtt_username", "enable_debug", "gain", "nokey"}
ValueChoices ==
    { <<>>, <<"0", "0", "7">>, <<"1">>, <<"1", ".", "5">>, <<"a", "b", "c">>,
      LongValue }

\* Registrations the application makes: the example's second "mqtt_port"
\* through wifi_manager_add_parameter (always a string), and a float
\* parameter through add_config_parameter.
AddChoices ==
    { [key |-> "mqtt_port", type |-> "STRING", default_value |-> <<"1", "8", "8", "3">>,
       required |-> TRUE],
      [key |-> "gain", type |-> "FLOAT", default_value |-> <<"1", ".", "5">>,
       required |-> FALSE] }

\* add_config_parameter / wifi_manager_add_parameter.
add_config_parameter ==
    /\ app_pc = "idle"
    /\ cfg_ops < MaxConfigOps
    /\ cfg_ops' = cfg_ops + 1
    /\ \E c \in AddChoices :
        IF Len(config_params) >= MAX_CONFIG_PARAMS
        THEN /\ cfg_err' = "ESP_ERR_INVALID_ARG"
             /\ config_params' = config_params
        ELSE /\ cfg_err' = "ESP_OK"
             /\ config_params' =
                   Append(config_params,
                          NewParam(c.key, c.type, c.default_value, c.required))
    /\ UNCHANGED <<vars, scanVars, webVars, cbVars, apVars, selVars, nvs_config,
                   stale_abort>>

\* wifi_manager_set_parameter.
wifi_manager_set_parameter ==
    /\ app_pc = "idle"
    /\ cfg_ops < MaxConfigOps
    /\ cfg_ops' = cfg_ops + 1
    /\ \E key \in KeyChoices, value \in ValueChoices :
        LET r == SetParam(config_params, key, value)
        IN  /\ cfg_err' = r.err
            /\ config_params' = r.params
    /\ UNCHANGED <<vars, scanVars, webVars, cbVars, apVars, selVars, nvs_config,
                   stale_abort>>

\* wifi_manager_save_config: the object is stored unless NVS fails.
wifi_manager_save_config ==
    /\ app_pc = "idle"
    /\ cfg_ops < MaxConfigOps
    /\ cfg_ops' = cfg_ops + 1
    /\ \E nvs_ok \in BOOLEAN :
        IF nvs_ok
        THEN nvs_config' = <<SaveJson(config_params)>> /\ cfg_err' = "ESP_OK"
        ELSE nvs_config' = nvs_config /\ cfg_err' = "ESP_FAIL"
    /\ UNCHANGED <<vars, scanVars, webVars, cbVars, apVars, selVars, config_params,
                   stale_abort>>

\* wifi_manager_load_config: every entry found in the stored object is
\* rewritten from it.
wifi_manager_load_config ==
    /\ app_pc = "idle"
    /\ cfg_ops < MaxConfigOps
    /\ cfg_ops' = cfg_ops + 1
    /\ \E nvs_ok \in BOOLEAN :
        IF ~nvs_ok
        THEN config_params' = config_params /\ cfg_err' = "ESP_FAIL"
        ELSE IF nvs_config = <<>>
        THEN config_params' = config_params /\ cfg_err' = "ESP_ERR_NVS_NOT_FOUND"
        ELSE /\ config_params' = LoadJson(config_params, nvs_config[1])
             /\ cfg_err' = "ESP_OK"
    /\ UNCHANGED <<vars, scanVars, webVars, cbVars, apVars, selVars, nvs_config,
                   stale_abort>>

\* wifi_manager_reset_config: every entry takes its default value.
wifi_manager_reset_config ==
    /\ app_pc = "idle"
    /\ cfg_ops < MaxConfigOps
    /\ cfg_ops' = cfg_ops + 1
    /\ config_params' =
          [i \in 1..Len(config_params) |->
              [config_params[i] EXCEPT !.value = config_params[i].default_value]]
    /\ cfg_err' = "ESP_OK"
    /\ UNCHANGED <<vars, scanVars, webVars, cbVars, apVars, selVars, nvs_config,
                   stale_abort>>

\* reset_handler (POST /reset): wifi_manager_erase_config, then
\* reset_config_parameters (the count is set to 0 and the defaults are
\* registered again; the key it erases is not the one the parameters are
\* stored under), then esp_restart when both succeeded.
reset_handler ==
    /\ Reachable
    /\ g_wm
    /\ cfg_ops < MaxConfigOps
    /\ cfg_ops' = cfg_ops + 1
    /\ config_params' = DefaultParams
    /\ \E wifi_ok \in BOOLEAN, config_ok \in BOOLEAN :
        /\ nvs_creds' = IF wifi_ok THEN FALSE ELSE nvs_creds
        /\ cfg_err' = IF config_ok THEN "ESP_OK" ELSE "ESP_FAIL"
        /\ IF wifi_ok /\ config_ok
           THEN app_pc' = "restarting" /\ server' = FALSE /\ wifi_started' = FALSE
           ELSE UNCHANGED <<app_pc, server, wifi_started>>
    /\ UNCHANGED <<globalVars, wm_status, wm_ip_address, wm_retry_count,
                   config_portal_timeout, save_callback, timeout_timer, portal_aborted,
                   config_saved, timer_state, timer_deletes, wifi_mode, sta, ac_active,
                   elapsed, ev_pc, ev_addr, obsVars>>
    /\ UNCHANGED <<scanVars, webVars, cbVars, apVars, selVars, nvs_config,
                   stale_abort>>

\* The parameter operations on their own: a portal session has timed out
\* (the HTTP server stays up, the application is between calls).
ConfigInit ==
    /\ PortalTimedOut
    /\ StoredBatch(<<>>)
    /\ NoObserver
    /\ ap_password_arg = NullPtr
    /\ ap_authmode = "OPEN"
    /\ NoSelection
    /\ ParamsCreated
    /\ stale_abort = FALSE

ConfigNext ==
    \/ add_config_parameter
    \/ wifi_manager_set_parameter
    \/ wifi_manager_save_config
    \/ wifi_manager_load_config
    \/ wifi_manager_reset_config
    \/ reset_handler

SpecConfig == ConfigInit /\ [][ConfigNext]_allVars

-----------------------------------------------------------------------------
(* The start of the portal with an observer and an AP password: the legacy  *)
(* wifi_manager_init(callback) has registered the observer before            *)
(* wifi_manager_create, and the application passes one of the passwords      *)
(* below to wifi_manager_start_config_portal.  The application task is       *)
(* followed up to the initial scan request; the event task and POST /connect *)
(* run freely.                                                               *)

\* A password of n characters.
Password(n) == [i \in 1..n |-> "p"]

\* ap_password arguments: NULL, "", seven characters, eight characters.
PasswordArgs == {NullPtr, Ptr(Password(0)), Ptr(Password(7)), Ptr(Password(8))}

PortalInit ==
    /\ ConnCreated
    /\ ScanCreated
    /\ user_callback = TRUE
    /\ cb_run = <<>>
    /\ ap_password_arg \in PasswordArgs
    /\ ap_authmode = "none"
    /\ NoSelection
    /\ ParamsCreated
    /\ stale_abort = FALSE

PortalNext ==
    \/ PortalEnter
    \/ PortalApStart
    \/ PortalWebStart
    \/ PortalScan
    \/ StaConnected
    \/ StaDisconnected
    \/ GotIpRecord
    \/ GotIpUpdate
    \/ connect_handler

SpecPortal == PortalInit /\ [][PortalNext]_allVars

\* wifi_manager_get_ip_address(wm): wm->ip_address while the instance status
\* is Connected, NULL otherwise.
wifi_manager_get_ip_address ==
    IF wm_status = "CONNECTED"
    THEN [ip_null |-> FALSE, ip |-> wm_ip_address]
    ELSE [ip_null |-> TRUE, ip |-> NoAddr]

\* wifi_manager_get_current_ip(): likewise on the globals.
wifi_manager_get_current_ip ==
    IF current_status = "CONNECTED"
    THEN [ip_null |-> FALSE, ip |-> ip_address]
    ELSE [ip_null |-> TRUE, ip |-> NoAddr]

\* The steps in which update_status is called.
UpdatesStatus ==
    \/ StaConnected
    \/ StaDisconnected
    \/ GotIpUpdate
    \/ PortalWebStart
    \/ StartConnect
    \/ (StartBegin /\ app_pc' = "a_wait")

-----------------------------------------------------------------------------
(* The scan coordinator across calls of the application: the application   *)
(* task runs wifi_manager_start_config_portal and wifi_manager_auto_connect *)
(* (with wifi_manager_start) in any order, the timer task, the scan task,  *)
(* the scan-done event and GET / run freely.  No station event is raised   *)
(* (every connect attempt is left pending), so the status is never         *)
(* Connected.                                                              *)

RestartNext ==
    \/ TimerExpire
    \/ PortalEnter
    \/ PortalApStart
    \/ PortalWebStart
    \/ PortalScan
    \/ PortalTimerSetup
    \/ PortalLoopTest
    \/ PortalPollTimer
    \/ PortalPollStatus
    \/ PortalCleanup
    \/ PortalResult
    \/ ACLoad
    \/ StartBegin
    \/ StartScanWait
    \/ StartConnect
    \/ ACWait
    \/ ACCheck
    \/ ACReturn
    \/ ScanDone
    \/ setup_page_handler
    \/ ScanTake
    \/ ScanStart
    \/ ScanFetch
    \/ ScanCopy

SpecRestart == Init /\ [][RestartNext]_allVars

-----------------------------------------------------------------------------
(* The station link with the loss of the address.  The portal is started   *)
(* and credentials are posted; the driver raises the connected,            *)
(* disconnected, got-IP and lost-IP events.                                *)

\* IP events wifi_event_handler is registered for (wifi_manager_create and
\* wifi_manager_init register it for IP_EVENT_STA_GOT_IP only; WIFI_EVENT is
\* registered with ESP_EVENT_ANY_ID).
IpEventsRegistered == {"IP_EVENT_STA_GOT_IP"}

\* The driver raises IP_EVENT_STA_LOST_IP: the station keeps its association
\* and holds no address.  The event loop runs wifi_event_handler only for the
\* events it is registered for; its IP_EVENT_STA_LOST_IP case zeroes both
\* address buffers and applies status Disconnected.
LostIp ==
    /\ ev_pc = "idle"
    /\ sta = "up"
    /\ sta' = "assoc"
    /\ IF "IP_EVENT_STA_LOST_IP" \in IpEventsRegistered
       THEN /\ ip_address' = NoAddr
            /\ wm_ip_address' = IF g_wm THEN NoAddr ELSE wm_ip_address
            /\ update_status("DISCONNECTED")
            /\ sess_connected' = FALSE
       ELSE UNCHANGED <<ip_address, wm_ip_address, current_status, wm_status,
                        cb_run, sess_connected>>
    /\ UNCHANGED <<retry_count, g_wm, wm_retry_count, config_portal_timeout,
                   save_callback, timeout_timer, portal_aborted, config_saved, server,
                   timer_state, timer_deletes, wifi_mode, wifi_started, nvs_creds,
                   ctlVars, ev_pre, disc_run, portal_ret, ac_ret, ac_portal, ac_seen,
                   ac_gotip, poll_seen, sess_expired, submitted, save_calls>>
    /\ UNCHANGED <<scanVars, webVars, user_callback, apVars, selVars, cfgVars,
                   stale_abort>>

LinkNext ==
    \/ PortalEnter
    \/ PortalApStart
    \/ PortalWebStart
    \/ PortalScan
    \/ StaConnected
    \/ StaDisconnected
    \/ GotIpRecord
    \/ GotIpUpdate
    \/ LostIp
    \/ connect_handler

SpecLink == Init /\ [][LinkNext]_allVars

-----------------------------------------------------------------------------
(* Properties                                                               *)

\* C1: every station-disconnect event moves the retry counter by exactly one
\* step: below the maximum it goes to the next value with status Connecting; on
\* the event that brings it to WIFI_MANAGER_MAX_RETRY the status becomes
\* Disconnected and the counter is back at 0. It is never advanced twice.
C1_RetryCounterStepsByOne ==
    [][StaDisconnected =>
        /\ RetryCounter \in 0..(WIFI_MANAGER_MAX_RETRY - 1)
        /\ (RetryCounter < WIFI_MANAGER_MAX_RETRY - 1 =>
                /\ RetryCounter' = RetryCounter + 1
                /\ current_status' = "CONNECTING")
        /\ (RetryCounter = WIFI_MANAGER_MAX_RETRY - 1 =>
                /\ RetryCounter' = 0
                /\ current_status' = "DISCONNECTED")]_vars

\* Two consecutive disconnects have been handled: counter 2, still Connecting.
C1_Witness ==
    /\ Len(disc_run) = 2
    /\ RetryCounter = WIFI_MANAGER_MAX_RETRY - 1
    /\ current_status = "CONNECTING"

C3_ResetAndRecordBeforeConnected ==
    /\ (ev_pc = "gotip" =>
            /\ RetryCounter = 0
            /\ ev_addr \in Addrs
            /\ ip_address = ev_addr
            /\ (g_wm => wm_ip_address = ev_addr))
    /\ (current_status = "CONNECTED" =>
            /\ RetryCounter = 0
            /\ ip_address \in Addrs)

\* An address arrives after two failed attempts: counter was 2, is 0, status
\* not yet Connected.
C3_Witness ==
    /\ ev_pc = "gotip"
    /\ ev_pre = WIFI_MANAGER_MAX_RETRY - 1
    /\ RetryCounter = 0
    /\ current_status = "CONNECTING"

\* C4: the saved flag is set, and the portal call returns true, only after a
\* poll of the wait loop of that session read status Connected; a credential
\* submission leaves the flag alone; within a session the flag is set by the
\* poll only and cleared at entry only, hence set at most once.
C4_SavedOnlyOnPolledConnected ==
    /\ [](config_saved => poll_seen = "CONNECTED")
    /\ [](portal_ret = "true" => config_saved /\ poll_seen = "CONNECTED")
    /\ [][connect_handler => config_saved' = config_saved]_vars
    /\ [][config_saved' # config_saved =>
            \/ (config_saved' /\ PortalPollStatus)
            \/ (~config_saved' /\ PortalEnter)]_vars

\* A session in which credentials were posted has returned true.
C4_Witness ==
    /\ portal_ret = "true"
    /\ submitted
    /\ config_saved

\* C5 (as claimed): whenever the status became Connected while the wait loop
\* was running (and the station is still Connected), the portal call returns
\* true, whatever the timer and the abort flag do.
C5_ConnectedInLoopReturnsTrue ==
    portal_ret = "false" => ~sess_connected

\* C6: a portal call that returns true with a save callback registered has
\* invoked it exactly once, at its return; a call that returns false has not
\* invoked it; nothing else invokes it.
C6_SaveCallbackOncePerSuccess ==
    /\ [](save_calls <= 1)
    /\ [](app_pc \in PortalPcs => save_calls = 0)
    /\ [](portal_ret = "false" => save_calls = 0)
    /\ [][PortalResult =>
            /\ (portal_ret' = "true" /\ save_callback => save_calls' = 1)
            /\ (portal_ret' = "true" /\ ~save_callback => save_calls' = 0)
            /\ (portal_ret' = "false" => save_calls' = 0)]_vars
    /\ [][save_calls' # save_calls => PortalResult \/ PortalEnter]_vars

\* A successful portal call has run the registered callback.
C6_Witness ==
    /\ portal_ret = "true"
    /\ save_callback
    /\ save_calls = 1

\* C8 (as claimed): once a session without any submission has timed out and
\* the call has returned false, the HTTP server is stopped and the soft AP is
\* down.
C8_TornDownAfterTimeout ==
    (portal_ret = "false" /\ sess_expired /\ ~submitted) =>
        (~server /\ wifi_mode \notin {"ap", "apsta"})

\* C9: a timer object is deleted at most once; outside the wait loop and its
\* clean-up the handle is NULL and no timer is pending, so neither a later
\* session nor wifi_manager_destroy deletes it again and its callback cannot
\* fire after the session.
C9_TimerReleasedOnce ==
    /\ timer_deletes <= 1
    /\ (timer_state = "deleted" => timer_deletes = 1)
    /\ (app_pc \notin (LoopPcs \cup {"p_cleanup"}) =>
            /\ ~timeout_timer
            /\ timer_state \in {"none", "deleted"})

\* A session whose timer expired has ended and the instance was destroyed.
C9_Witness ==
    /\ app_pc = "destroyed"
    /\ sess_expired
    /\ timer_state = "deleted"
    /\ timer_deletes = 1

\* C10: wifi_manager_auto_connect returns true without the portal only when
\* its check read status Connected (an address having been acquired during the
\* attempt); it starts the portal exactly when that check did not read
\* Connected or no attempt was made, and then returns the portal's result.
C10_PortalIffNotConnected ==
    /\ (ac_ret # "none" /\ ~ac_portal) =>
            (ac_ret = "true" /\ ac_seen = "CONNECTED" /\ ac_gotip)
    /\ (ac_ret # "none" /\ ac_portal) =>
            (ac_ret = portal_ret /\ ac_seen # "CONNECTED")
    /\ (app_pc = "a_portal" \/ (ac_active /\ ac_portal)) => ac_seen # "CONNECTED"
    /\ (ac_active /\ app_pc \in PortalPcs) => ac_portal

\* The retries on saved credentials ended in Disconnected, the portal ran and
\* its result was returned.
C10_Witness ==
    /\ ac_ret = "false"
    /\ ac_portal
    /\ ac_seen = "DISCONNECTED"

\* C7 (as claimed): with a finite timeout configured, a session whose status
\* never becomes Connected eventually returns false.
C7_FiniteTimeoutEndsWait ==
    (config_portal_timeout > 0 /\ app_pc = "p_test")
        ~> (portal_ret = "false" \/ current_status = "CONNECTED")

\* C7 (supporting, timer created): once xTimerCreate has returned a handle,
\* the same session does return false unless the status becomes Connected,
\* and the expiry sets the abort flag.
C7_CreatedTimerEndsWait ==
    /\ (timeout_timer /\ app_pc = "p_test")
            ~> (portal_ret = "false" \/ current_status = "CONNECTED")
    /\ [][TimerExpire => portal_aborted']_vars

\* C11 (as claimed): once the retries on a configured network are used up and
\* the status is Disconnected, a connect is eventually issued again (here: by
\* anyone, which is weaker than "by the manager without an application call").
C11_GivenUpLeadsToConnect ==
    (current_status = "DISCONNECTED" /\ Len(disc_run) = WIFI_MANAGER_MAX_RETRY)
        ~> (sta = "trying")

\* The scan task is at the esp_wifi_scan_start call (the mode check passed).
IssuesScan == ScanStart /\ wifi_mode \in {"apsta", "sta"}

\* C12 (as claimed): the scan task never calls esp_wifi_scan_start while a
\* scan it started earlier is still in flight (the driver has not reported
\* scan-done for it).
C12_OneScanInFlight ==
    [][IssuesScan => ~scan_active]_allVars

\* C13 (as claimed): after the scan task has taken a start request, the
\* completion flag is eventually true.
C13_StartLeadsToCompleted ==
    start_taken ~> scan_completed

\* C14 (as claimed): at the moment the scan task calls esp_wifi_scan_start the
\* status is not Connected.
C14_NoScanWhileConnected ==
    [][IssuesScan => ~(current_status = "CONNECTED" /\ wm_status = "CONNECTED")]_allVars

\* C15 (as claimed): whenever wifi_list_handler finds the completion flag set
\* and a non-zero count, the scan task is not in the middle of writing that
\* batch (count already stored, records and flag still to come).
C15_SnapshotNeverPartial ==
    [][(wifi_list_handler /\ current_status # "CONNECTED" /\ scan_completed
            /\ scanned_count > 0) => scan_pc # "copy"]_allVars

\* The records of the stored batch, and those of them that may be listed.
BatchRecords == {NetworkAt(scanned_networks, i) : i \in 1..scanned_count}
Visible == {r \in BatchRecords : r.ssid # "" /\ ~r.is_hidden}

\* C16: the served list holds no name twice, and every entry carries the
\* largest RSSI found among the non-hidden records of the batch with its name.
C16_UniqueAndStrongest ==
    served =>
        /\ \A i, j \in 1..Len(listed) : i # j => listed[i].ssid # listed[j].ssid
        /\ \A k \in 1..Len(listed) :
            /\ \E r \in Visible : r.ssid = listed[k].ssid /\ r.rssi = listed[k].rssi
            /\ \A r \in Visible : r.ssid = listed[k].ssid => r.rssi <= listed[k].rssi

\* The HomeNet batch was served: the weaker record came first and was replaced.
C16_Witness ==
    /\ served
    /\ scanned_count = 2
    /\ scanned_networks[1].ssid = "HomeNet" /\ scanned_networks[1].rssi = -70
    /\ scanned_networks[2].ssid = "HomeNet" /\ scanned_networks[2].rssi = -55
    /\ Len(listed) = 1
    /\ listed[1].rssi = -55

\* C17: the served list is ordered by non-increasing RSSI.
C17_SortedByStrength ==
    served =>
        \A k \in 1..(Len(listed) - 1) : listed[k].rssi >= listed[k + 1].rssi

\* Three names arrived weakest first and were served strongest first.
C17_Witness ==
    /\ served
    /\ scanned_count = 3
    /\ scanned_networks[1].rssi < scanned_networks[2].rssi
    /\ scanned_networks[2].rssi < scanned_networks[3].rssi
    /\ Len(listed) = 3
    /\ listed[1].ssid = scanned_networks[3].ssid
    /\ listed[3].ssid = scanned_networks[1].ssid

C19_QualityBreakpoints ==
    served =>
        /\ \A k \in 1..Len(listed) :
            LET rssi == listed[k].rssi
                q == listed[k].quality
            IN  /\ rssi \in Int8
                /\ (rssi >= -50 => q = 100)
                /\ (rssi < -50 /\ rssi >= -60 => q = 90)
                /\ (rssi < -60 /\ rssi >= -70 => q = 70)
                /\ (rssi < -70 /\ rssi >= -80 => q = 50)
                /\ (rssi < -80 /\ rssi >= -90 => q = 25)
                /\ (rssi < -90 => q = 10)
        /\ (scanned_networks = <<StoredRecord(ApRecord("HomeNet", -70)),
                                 StoredRecord(ApRecord("HomeNet", -55))>>
              /\ scanned_count = 2
                => listed = <<[ssid |-> "HomeNet", rssi |-> -55, quality |-> 90]>>)

\* A single record exactly on the -60 breakpoint was served with quality 90.
C19_Witness ==
    /\ served
    /\ Len(listed) = 1
    /\ listed[1].rssi = -60
    /\ listed[1].quality = 90

\* C20 (as claimed): no entry of a served list has a quality below the
\* configured minimum signal quality.
C20_BelowMinimumNotOffered ==
    [][wifi_list_handler =>
        \A k \in 1..Len(listed') : listed'[k].quality >= minimum_signal_quality]_allVars

\* C21 (as claimed): once wifi_manager_start has searched the stored batch,
\* it has selected no record when no record carries the saved name, and
\* otherwise a record of that name that is at least as strong as every other
\* record of that name and precedes every equally strong one.
MatchingRecords ==
    {i \in 1..scanned_count : NetworkAt(scanned_networks, i).ssid = saved_ssid}

C21_StrongestMatchSelected ==
    app_pc = "s_connect" =>
        IF MatchingRecords = {} THEN strongest_index = -1
        ELSE /\ strongest_index + 1 \in MatchingRecords
             /\ \A j \in MatchingRecords :
                  LET sel == scanned_networks[strongest_index + 1]
                      r == scanned_networks[j]
                  IN  /\ r.rssi <= sel.rssi
                      /\ (r.rssi = sel.rssi => strongest_index + 1 <= j)

\* C22: a wifi_manager_set_parameter call that returns an error (malformed
\* value, string too long, empty value for a required parameter, unknown
\* key) leaves every entry of the collection as it was.
C22_RejectedSetChangesNothing ==
    [][wifi_manager_set_parameter /\ cfg_err' # "ESP_OK" =>
            config_params' = config_params]_allVars

\* A value was set, then a second set was rejected on validation.
C22_Witness ==
    /\ cfg_ops = 2
    /\ cfg_err = "ESP_ERR_INVALID_ARG"
    /\ Len(config_params) = Len(DefaultParams)
    /\ config_params # DefaultParams

\* C23 (as claimed): a load of the object that a save of the current
\* collection stores leaves every entry with the same key, type and value.
C23_SaveLoadRoundTrip ==
    [][(/\ wifi_manager_load_config
        /\ cfg_err' = "ESP_OK"
        /\ nvs_config = <<SaveJson(config_params)>>) =>
            config_params' = config_params]_allVars

\* C24 (as claimed): no two entries share a key, and the lookup of an
\* entry's key finds that entry.
C24_KeysUnique ==
    \A i \in 1..Len(config_params) :
        /\ \A j \in 1..Len(config_params) :
              i # j => config_params[i].key # config_params[j].key
        /\ FindParam(config_params, config_params[i].key) = i

\* C25 (as claimed): no operation makes the collection shorter or longer
\* than MAX_CONFIG_PARAMS or changes the key or type of an entry, and an add
\* on a full collection fails and changes nothing.
C25_AppendOnlyFixedCapacity ==
    [][/\ Len(config_params') >= Len(config_params)
       /\ Len(config_params') <= MAX_CONFIG_PARAMS
       /\ \A i \in 1..Len(config_params) :
             /\ config_params'[i].key = config_params[i].key
             /\ config_params'[i].type = config_params[i].type
       /\ (add_config_parameter /\ Len(config_params) = MAX_CONFIG_PARAMS =>
             cfg_err' # "ESP_OK" /\ config_params' = config_params)]_allVars

\* C26: once the portal call has returned, the abort flag it left set makes
\* nothing happen (no save-callback invocation, no timer deletion, and the
\* deleted timer cannot expire again); the next session clears the flag on
\* entry, so inside a session the flag is set only if that session's own
\* timer expired.
C26_StaleAbortIsInert ==
    /\ [](app_pc \notin PortalPcs => timer_state # "active")
    /\ [][(app_pc \notin PortalPcs /\ portal_aborted /\ ~PortalEnter) =>
            (save_calls' = save_calls /\ timer_deletes' = timer_deletes)]_vars
    /\ [][PortalEnter => ~portal_aborted']_vars
    /\ []((app_pc \in PortalPcs /\ portal_aborted) => sess_expired)

\* A session entered with the abort flag still set from the previous one is
\* about to test the flag for the first time, and the flag is clear.
C26_Witness ==
    /\ app_pc = "p_test"
    /\ stale_abort
    /\ ~portal_aborted
    /\ ~sess_expired

\* C27: every update_status call with an observer registered invokes it
\* exactly once, after the status is stored (the observer finds the new
\* status), with the status applied and with the address buffer if and only
\* if that status is Connected (the buffer then holds an acquired address);
\* wifi_manager_get_ip_address and wifi_manager_get_current_ip return an
\* address only while the status they go by is Connected.
C27_ObserverCalledOnceAfterStore ==
    /\ [][(UpdatesStatus /\ user_callback) =>
            /\ Len(cb_run') = 1
            /\ cb_run'[1].status = current_status'
            /\ cb_run'[1].seen = current_status'
            /\ (cb_run'[1].ip_null <=> current_status' # "CONNECTED")
            /\ (~cb_run'[1].ip_null => cb_run'[1].ip \in Addrs)]_allVars
    /\ [][cb_run' # cb_run => UpdatesStatus]_allVars
    /\ [](~wifi_manager_get_ip_address.ip_null =>
            (wm_status = "CONNECTED" /\ wifi_manager_get_ip_address.ip \in Addrs))
    /\ [](~wifi_manager_get_current_ip.ip_null =>
            (current_status = "CONNECTED" /\ wifi_manager_get_current_ip.ip \in Addrs))

\* The observer was just called with Connected and the acquired address, and
\* both getters return it.
C27_Witness ==
    /\ user_callback
    /\ Len(cb_run) = 1
    /\ cb_run[1].status = "CONNECTED"
    /\ ~cb_run[1].ip_null
    /\ cb_run[1].ip \in Addrs
    /\ wifi_manager_get_ip_address.ip = cb_run[1].ip
    /\ wifi_manager_get_current_ip.ip = cb_run[1].ip

\* C28 (as claimed): in a portal session the status is ApMode once the soft
\* AP is up and the HTTP server is not started yet, and PortalActive while the
\* wait loop runs and no credentials were posted (so no station event has
\* occurred).
C28_ApModeThenPortalActive ==
    /\ (app_pc = "p_web" => wm_status = "AP_MODE")
    /\ ((app_pc \in LoopPcs /\ ~submitted) =>
            (wm_status = "CONFIG_PORTAL" /\ current_status = "CONFIG_PORTAL"))

\* C29 (as claimed): when the driver refuses a connect, in wifi_manager_start
\* or in the disconnect handler, the status becomes Failed.
C29_DriverErrorMovesToFailed ==
    [][(\/ (StartConnect /\ app_pc' = "a_portal")
        \/ (StaDisconnected /\ DisconnectOutcome(RetryCounter).retry /\ ~CanConnect))
            => current_status' = "FAILED"]_vars

\* C30 (as claimed): once the portal has configured the soft AP, the AP is
\* protected exactly when a password of at least 8 characters was passed, and
\* it is open only when no password (NULL or empty) was passed.
C30_ProtectedIffLongPassword ==
    (app_pc \in PortalPcs \ {"p_ap"}) =>
        /\ (ap_authmode = "WPA2_PSK" <=>
                (ap_password_arg.set /\ Len(ap_password_arg.str) >= 8))
        /\ (ap_authmode = "OPEN" =>
                (~ap_password_arg.set \/ Len(ap_password_arg.str) = 0))

\* C31 (as claimed): no signal to the scan task is lost.  A pending complete
\* value leads to the worker's completion branch, whatever is posted in the
\* meantime, and a pending start value leads to the worker's start branch
\* (which it leaves at once when the status is Connected).
C31_NoSignalLost ==
    /\ (notify = SCAN_NOTIFICATION_COMPLETE) ~> (scan_pc = "fetch")
    /\ (notify = SCAN_NOTIFICATION_START) ~>
            (scan_pc = "start" \/ wm_status = "CONNECTED")

\* C32 (as claimed): when the scan task serves a start request and no scan
\* starts (wrong radio mode, or esp_wifi_scan_start refuses), and when the
\* fetch of the results fails, the scan state left behind is complete and
\* empty: scan_completed is true and scanned_count is 0.
C32_FailedScanIsEmptyComplete ==
    [][((ScanStart /\ ~start_taken') \/ (ScanFetch /\ scan_pc' = "wait"))
            => (scan_completed' /\ scanned_count' = 0)]_allVars

\* C33 (as claimed): the batch, the count and the completion flag are written
\* only by the scan task, and only in its completion branch (in response to a
\* completion signal).
C33_SingleWriterOnCompletion ==
    [][(<<scanned_networks, scanned_count, scan_completed>>' #
            <<scanned_networks, scanned_count, scan_completed>>)
            => (ScanFetch \/ ScanCopy)]_allVars

\* C34 (as claimed): the status has one current value: while the instance
\* exists, the instance status wm->current_status equals the process-wide
\* current_status.
C34_SingleStatusValue ==
    g_wm => wm_status = current_status

\* C35 (as claimed): on a disconnect event the handler retries whenever the
\* retry counter it finds is below WIFI_MANAGER_MAX_RETRY (it increments the
\* counter, reissues connect, status Connecting); it gives up (status
\* Disconnected, counter reset) only when the counter it finds has reached
\* the maximum.
C35_RetryWhileBelowMax ==
    [][StaDisconnected =>
            IF RetryCounter < WIFI_MANAGER_MAX_RETRY
            THEN /\ RetryCounter' = RetryCounter + 1
                 /\ current_status' = "CONNECTING"
                 /\ (CanConnect => sta' = "trying")
            ELSE /\ RetryCounter' = 0
                 /\ current_status' = "DISCONNECTED"]_vars

\* C36 (as claimed): when wifi_manager_start or connect_handler issues a
\* connect, the retry counter is 0, so the attempt has the full retry budget.
C36_FreshAttemptFullBudget ==
    [][(StartConnect \/ connect_handler) => RetryCounter = 0]_vars

\* C37 (as claimed): from the soft-AP start of a portal session until the
\* portal call returns, the radio mode is AP+STA, also after credentials were
\* submitted.
C37_PortalKeepsApSta ==
    (app_pc \in PortalPcs \ {"p_ap"}) => wifi_mode = "apsta"

\* C38 (as claimed): an IP_EVENT_STA_LOST_IP raised while the status is
\* Connected is handled: the status becomes Disconnected and both copies of
\* the address are cleared.
C38_LostIpDisconnects ==
    [][(LostIp /\ current_status = "CONNECTED") =>
            /\ current_status' = "DISCONNECTED"
            /\ wm_status' = "DISCONNECTED"
            /\ ip_address' = NoAddr
            /\ wm_ip_address' = NoAddr]_allVars

\* C39 (as claimed): once reset_config_parameters has returned ESP_OK (in
\* reset_handler), a load_config_parameters restores no saved value: nothing
\* is stored, or what is stored leaves every parameter at its default.
C39_ResetErasesSavedParameters ==
    [][(reset_handler /\ cfg_err' = "ESP_OK") =>
            \/ nvs_config' = <<>>
            \/ \A i \in 1..Len(config_params') :
                  LoadJson(config_params', nvs_config'[1])[i].value =
                      config_params'[i].default_value]_allVars

\* C40 (as claimed): start_webserver is never called while g_wm->server
\* holds a running server.
C40_ServerStartedOnce ==
    [][(PortalWebStart \/ (StartBegin /\ app_pc' = "a_wait")) => ~server]_vars

====
